---------------------------- MODULE Spec2Model ----------------------------
(***************************************************************************)
(* Model of the discrete element method engine of brittle-matter-matters   *)
(* (src/dem.c): the particle store, the link store, the neighbor cache,    *)
(* one integration step and the main loop of bmm_dem_run_.                 *)
(*                                                                         *)
(* Real-valued quantities (double in the source) are kept on an integer    *)
(* lattice: lengths in lattice units, masses and forces in units of pi     *)
(* (so that the mass rho * pi * r^2 of a disk is r * r), the reduced       *)
(* moment of inertia in halves and times in time quanta.  Arrays are      *)
(* functions indexed from 0 as in the source.                              *)
(***************************************************************************)
EXTENDS Integers, Sequences, FiniteSets, TLC

(***************************************************************************)
(* Capacities.  The source takes them from conf.h; the model scales them   *)
(* down.                                                                   *)
(***************************************************************************)
MPART == 3
NLINK == 2
NGROUP == 2
\* Bound on the label counter part.lnew explored by the model.
MaxLabel == MPART + 1

NDIM == 2
\* What bmm_dem_addpart returns when the store is full.
SIZE_MAX == 2147483647

Dims == 0 .. NDIM - 1
Parts == 0 .. MPART - 1
Links == 0 .. NLINK - 1
\* dem.h: BMM_NGROUP * (BMM_POW(3, BMM_NDIM) / 2)
NNEIGH == NGROUP * ((3 * 3) \div 2)
Neighs == 0 .. NNEIGH - 1
Groups == 0 .. NGROUP - 1

Vec(a, b) == [d \in Dims |-> IF d = 0 THEN a ELSE b]
Zero == Vec(0, 0)

VARIABLES
  opts,    \* dem->opts
  time,    \* dem->time
  part,    \* dem->part
  link,    \* dem->link
  cache,   \* dem->cache
  script,  \* dem->script
  comm,    \* dem->comm
  rng,     \* dem->rng, the state of the random number generator
  sig,     \* the signal latch of sig.h
  pc,      \* position of the program
  ret,     \* value returned by the last call
  sink,    \* the messages written to the output stream
  tle,     \* the message of the thread-local error of tle.c
  call     \* a call of a library function: its arguments and what it has done

vars == <<opts, time, part, link, cache, script, comm, rng, sig, pc, ret, sink,
          tle, call>>

-----------------------------------------------------------------------------
(***************************************************************************)
(* Particle store.                                                         *)
(***************************************************************************)

\* bmm_geom_ballprmoi(2) = 1/2, in halves.
bmm_geom_ballprmoi == 1

\* The particle table after memset(dem, 0, sizeof *dem).
part_zero ==
  [n |-> 0, lnew |-> 0,
   role |-> [i \in Parts |-> "FREE"],
   l |-> [i \in Parts |-> 0],
   r |-> [i \in Parts |-> 0],
   m |-> [i \in Parts |-> 0],
   jred |-> [i \in Parts |-> 0],
   x |-> [i \in Parts |-> Zero],
   v |-> [i \in Parts |-> Zero],
   a |-> [i \in Parts |-> Zero],
   phi |-> [i \in Parts |-> 0],
   omega |-> [i \in Parts |-> 0],
   alpha |-> [i \in Parts |-> 0],
   f |-> [i \in Parts |-> Zero],
   tau |-> [i \in Parts |-> 0]]

link_zero ==
  [part |-> [i \in Parts |->
    [n |-> 0,
     i |-> [k \in Links |-> 0],
     rrest |-> [k \in Links |-> 0],
     phirest |-> [k \in Links |-> Zero],
     rlim |-> [k \in Links |-> 0],
     philim |-> [k \in Links |-> 0]]]]

\* bmm_dem_addpart that hands out the label without advancing the counter.
addpart_part_samelabel(p) ==
  IF p.n >= MPART THEN p
  ELSE LET ipart == p.n IN
    [p EXCEPT !.n = ipart + 1,
              !.l[ipart] = p.lnew,
              !.role[ipart] = "FREE",
              !.r[ipart] = 1,
              !.m[ipart] = 1,
              !.jred[ipart] = bmm_geom_ballprmoi,
              !.x[ipart] = Zero,
              !.v[ipart] = Zero,
              !.a[ipart] = Zero,
              !.phi[ipart] = 0,
              !.omega[ipart] = 0,
              !.alpha[ipart] = 0,
              !.f[ipart] = Zero,
              !.tau[ipart] = 0]

\* The particle table bmm_dem_addpart leaves behind.
addpart_part(p) ==
  IF p.n >= MPART THEN p
  ELSE LET ipart == p.n IN
    [p EXCEPT !.n = ipart + 1,
              !.l[ipart] = p.lnew,
              !.lnew = p.lnew + 1,
              !.role[ipart] = "FREE",
              !.r[ipart] = 1,
              !.m[ipart] = 1,
              !.jred[ipart] = bmm_geom_ballprmoi,
              !.x[ipart] = Zero,
              !.v[ipart] = Zero,
              !.a[ipart] = Zero,
              !.phi[ipart] = 0,
              !.omega[ipart] = 0,
              !.alpha[ipart] = 0,
              !.f[ipart] = Zero,
              !.tau[ipart] = 0]

\* The index bmm_dem_addpart returns.
addpart_ret(p) == IF p.n >= MPART THEN SIZE_MAX ELSE p.n

\* bmm_dem_addpart that marks the cache stale before it checks for room.
addpart_stale_early(p, stale) == TRUE

\* The stale flag bmm_dem_addpart leaves behind.
addpart_stale(p, stale) == IF p.n >= MPART THEN stale ELSE TRUE

\* bmm_dem_reassign, the particle table.
reassign_part(p, ipart, jpart) ==
  [p EXCEPT !.role[ipart] = p.role[jpart],
            !.l[ipart] = p.l[jpart],
            !.r[ipart] = p.r[jpart],
            !.m[ipart] = p.m[jpart],
            !.jred[ipart] = p.jred[jpart],
            !.x[ipart] = p.x[jpart],
            !.v[ipart] = p.v[jpart],
            !.a[ipart] = p.a[jpart],
            !.phi[ipart] = p.phi[jpart],
            !.omega[ipart] = p.omega[jpart],
            !.alpha[ipart] = p.alpha[jpart],
            !.f[ipart] = p.f[jpart],
            !.tau[ipart] = p.tau[jpart]]

\* The first n entries of src over dst: the copy loops of bmm_dem_reassign.
copy_upto(dst, src, n) == [k \in Links |-> IF k < n THEN src[k] ELSE dst[k]]

\* bmm_dem_reassign that forgets the angular limits of the bonds.
reassign_link_nophilim(lk, ipart, jpart) ==
  LET s == lk.part[jpart]
      d == lk.part[ipart]
  IN [lk EXCEPT !.part[ipart] =
        [n |-> s.n,
         i |-> copy_upto(d.i, s.i, s.n),
         rrest |-> copy_upto(d.rrest, s.rrest, s.n),
         phirest |-> copy_upto(d.phirest, s.phirest, s.n),
         rlim |-> copy_upto(d.rlim, s.rlim, s.n),
         philim |-> d.philim]]

\* bmm_dem_reassign, the link lists.
reassign_link(lk, ipart, jpart) ==
  LET s == lk.part[jpart]
      d == lk.part[ipart]
  IN [lk EXCEPT !.part[ipart] =
        [n |-> s.n,
         i |-> copy_upto(d.i, s.i, s.n),
         rrest |-> copy_upto(d.rrest, s.rrest, s.n),
         phirest |-> copy_upto(d.phirest, s.phirest, s.n),
         rlim |-> copy_upto(d.rlim, s.rlim, s.n),
         philim |-> copy_upto(d.philim, s.philim, s.n)]]

\* bmm_dem_addpart
AddPart ==
  /\ pc = "api"
  /\ part.lnew < MaxLabel
  /\ part' = addpart_part(part)
  /\ ret' = addpart_ret(part)
  /\ cache' = [cache EXCEPT !.stale = addpart_stale(part, cache.stale)]
  /\ UNCHANGED <<call, opts, time, link, script, comm, rng, sig, pc, sink, tle>>

\* bmm_dem_rempart, called with the index of an active particle.
RemPart(ipart) ==
  /\ pc = "api"
  /\ ipart < part.n
  /\ LET jpart == part.n - 1
         p == [part EXCEPT !.n = jpart]
     IN /\ part' = IF jpart # ipart THEN reassign_part(p, ipart, jpart) ELSE p
        /\ link' = IF jpart # ipart THEN reassign_link(link, ipart, jpart) ELSE link
  /\ cache' = [cache EXCEPT !.stale = TRUE]
  /\ ret' = 0
  /\ UNCHANGED <<call, opts, time, script, comm, rng, sig, pc, sink, tle>>

-----------------------------------------------------------------------------
(***************************************************************************)
(* Scalar and vector helpers (fp.h, geom2d.h, size.h) and the random       *)
(* number generator.                                                       *)
(***************************************************************************)

\* The generator has RngMod states; the k-th state yields the uniform
\* variate k / RngMod of [0, 1) and is followed by the state k + 1.
RngMod == 2
RngStates == 0 .. RngMod - 1
rng_next(g) == (g + 1) % RngMod

\* bmm_rng_get: gsl_rng_uniform(rng) * (x[1] - x[0]) + x[0], truncated.
bmm_rng_get(g, x) == (g * (x[1] - x[0])) \div RngMod + x[0]

bmm_fp_sq(x) == x * x

\* sqrt, truncated to the lattice.
fp_sqrt(x) == CHOOSE k \in 0 .. x : k * k <= x /\ x < (k + 1) * (k + 1)

\* bmm_fp_uwrap(x, b): x shifted by multiples of b into [0, b).
bmm_fp_uwrap(x, b) == x % b

\* bmm_fp_swrap(x, p): x shifted by multiples of p into [-p/2, p/2).
\* Twice the value is compared so that an odd p needs no half.
bmm_fp_swrap(x, p) ==
  LET y == x % p IN IF 2 * y >= p THEN y - p ELSE y

fp_abs(x) == IF x < 0 THEN -x ELSE x

\* bmm_fp_lerp(x, x0, x1, y0, y1), rounded down.
bmm_fp_lerp(x, x0, x1, y0, y1) == ((x - x0) * (y1 - y0)) \div (x1 - x0) + y0

\* bmm_geom2d_diff(x, y): x - y.
bmm_geom2d_diff(x, y) == [d \in Dims |-> x[d] - y[d]]

\* bmm_geom2d_cpdiff(x, y, xper, per): the shortest image of y - x.
bmm_geom2d_cpdiff(x, y, xper, per) ==
  [d \in Dims |-> IF per[d] THEN bmm_fp_swrap(y[d] - x[d], xper[d])
                  ELSE y[d] - x[d]]

bmm_geom2d_norm2(x) == x[0] * x[0] + x[1] * x[1]

bmm_geom2d_cpdist2(x, y, xper, per) ==
  bmm_geom2d_norm2(bmm_geom2d_cpdiff(x, y, xper, per))

\* Angles are counted in eighths of a turn, rounded down.
M_2PI == 8

\* bmm_geom2d_dir(x): atan2(x[1], x[0]).
bmm_geom2d_dir(x) ==
  LET a == x[0]
      b == x[1]
  IN IF b = 0 THEN (IF a < 0 THEN 4 ELSE 0)
     ELSE IF b > 0 THEN
       (IF a > 0 THEN (IF b < a THEN 0 ELSE 1)
        ELSE IF a = 0 THEN 2
        ELSE (IF -a <= b THEN 2 ELSE 3))
     ELSE
       (IF a > 0 THEN (IF -b <= a THEN -1 ELSE -2)
        ELSE IF a = 0 THEN -2
        ELSE (IF -b >= -a THEN -3 ELSE -4))

\* bmm_geom2d_redir(phi): the opposite direction.
bmm_geom2d_redir(phi) == phi + M_2PI \div 2

\* bmm_size_unhcd(ij, BMM_NDIM, nper)
bmm_size_unhcd(ij, nper) == ij[0] * nper[1] + ij[1]

-----------------------------------------------------------------------------
(***************************************************************************)
(* Link store.                                                             *)
(***************************************************************************)

\* bmm_dem_link_pair that asks for closeness alone.
link_pair_ret_near(o, p, lk, ipart, jpart) ==
  LET xdiff == bmm_geom2d_cpdiff(p.x[ipart], p.x[jpart], o.box_x, o.box_per)
      d2 == bmm_geom2d_norm2(xdiff)
      r == p.r[ipart] + p.r[jpart]
      r2 == bmm_fp_sq(r)
  IN ~(d2 * o.ccrlink[1] > r2 * o.ccrlink[0])

\* bmm_dem_link_pair: whether the pair is close enough and the list of
\* ipart has room.
link_pair_ret(o, p, lk, ipart, jpart) ==
  LET xdiff == bmm_geom2d_cpdiff(p.x[ipart], p.x[jpart], o.box_x, o.box_per)
      d2 == bmm_geom2d_norm2(xdiff)
      r == p.r[ipart] + p.r[jpart]
      r2 == bmm_fp_sq(r)
  IN /\ ~(d2 * o.ccrlink[1] > r2 * o.ccrlink[0])
     /\ ~(lk.part[ipart].n >= NLINK)

\* bmm_dem_link_pair: the link store and the generator it leaves behind.
link_pair(o, p, st, ipart, jpart) ==
  IF ~link_pair_ret(o, p, st.link, ipart, jpart) THEN st
  ELSE
    LET xdiff == bmm_geom2d_cpdiff(p.x[ipart], p.x[jpart], o.box_x, o.box_per)
        d == fp_sqrt(bmm_geom2d_norm2(xdiff))
        rrest == (d * o.cshlink[0]) \div o.cshlink[1]
        n == st.link.part[ipart].n
        phi == bmm_geom2d_dir(xdiff)
        g1 == st.rng
        g2 == rng_next(g1)
        crlim == bmm_rng_get(g1, o.crlim)
        cphilim == bmm_rng_get(g2, o.cphilim)
        beam == o.flink = "BEAM"
        old == st.link.part[ipart]
    IN [link |-> [st.link EXCEPT !.part[ipart] =
          [n |-> n + 1,
           i |-> [old.i EXCEPT ![n] = jpart],
           rrest |-> [old.rrest EXCEPT ![n] = rrest],
           phirest |-> IF beam
             THEN [old.phirest EXCEPT ![n] =
                     Vec(p.phi[ipart] - phi, p.phi[jpart] - bmm_geom2d_redir(phi))]
             ELSE old.phirest,
           rlim |-> IF beam THEN [old.rlim EXCEPT ![n] = crlim * rrest]
                    ELSE old.rlim,
           philim |-> IF beam THEN [old.philim EXCEPT ![n] = cphilim * M_2PI]
                      ELSE old.philim]],
        rng |-> IF beam THEN rng_next(g2) ELSE st.rng]

\* Loops that visit every pair from both of its ends.
RECURSIVE pairs_none_both(_, _)
pairs_none_both(ipart, n) ==
  IF ipart >= n THEN <<>>
  ELSE LET js == SelectSeq([k \in 1 .. n |-> k - 1], LAMBDA j : j # ipart)
       IN [k \in 1 .. Len(js) |-> <<ipart, js[k]>>]
            \o pairs_none_both(ipart + 1, n)

\* The pairs bmm_dem_link and bmm_dem_force visit, in the order of the loops.
RECURSIVE pairs_none(_, _)
pairs_none(ipart, n) ==
  IF ipart >= n THEN <<>>
  ELSE [k \in 1 .. n - 1 - ipart |-> <<ipart, ipart + k>>] \o pairs_none(ipart + 1, n)

\* Neighbor lists of which only the entries above the owner are visited.
RECURSIVE pairs_neigh_above(_, _, _)
pairs_neigh_above(c, ipart, n) ==
  IF ipart >= n THEN <<>>
  ELSE SelectSeq([k \in 1 .. c.neigh[ipart].n |->
                    <<ipart, c.neigh[ipart].i[k - 1]>>],
                 LAMBDA pair : pair[2] > ipart)
         \o pairs_neigh_above(c, ipart + 1, n)

RECURSIVE pairs_neigh(_, _, _)
pairs_neigh(c, ipart, n) ==
  IF ipart >= n THEN <<>>
  ELSE [k \in 1 .. c.neigh[ipart].n |-> <<ipart, c.neigh[ipart].i[k - 1]>>]
         \o pairs_neigh(c, ipart + 1, n)

pairs_of(o, p, c) ==
  IF o.caching = "NONE" THEN pairs_none(0, p.n)
  ELSE IF o.caching = "NEIGH" THEN pairs_neigh(c, 0, p.n)
  ELSE <<>>

RECURSIVE link_pairs(_, _, _, _)
link_pairs(o, p, st, pairs) ==
  IF pairs = <<>> THEN st
  ELSE link_pairs(o, p, link_pair(o, p, st, Head(pairs)[1], Head(pairs)[2]),
                  Tail(pairs))

\* bmm_dem_link
Link ==
  /\ pc = "api"
  /\ LET st == link_pairs(opts, part, [link |-> link, rng |-> rng],
                          pairs_of(opts, part, cache))
     IN /\ link' = st.link
        /\ rng' = st.rng
  /\ ret' = 1
  /\ UNCHANGED <<call, opts, time, part, cache, script, comm, sig, pc, sink, tle>>

\* bmm_dem_unlink that stops after the first particle.
unlink_first(lk, n) ==
  [lk EXCEPT !.part = [i \in Parts |->
     IF i < n /\ i < 1 THEN [lk.part[i] EXCEPT !.n = 0] ELSE lk.part[i]]]

\* bmm_dem_unlink, the link store.
unlink(lk, n) ==
  [lk EXCEPT !.part = [i \in Parts |->
     IF i < n THEN [lk.part[i] EXCEPT !.n = 0] ELSE lk.part[i]]]

\* bmm_dem_unlink
Unlink ==
  /\ pc = "api"
  /\ link' = unlink(link, part.n)
  /\ ret' = 1
  /\ UNCHANGED <<call, opts, time, part, cache, script, comm, rng, sig, pc, sink, tle>>

-----------------------------------------------------------------------------
(***************************************************************************)
(* Neighbor cache.                                                         *)
(***************************************************************************)

\* Largest number of neighbor cells per dimension (conf.h).
NCELL == 5
Cells == 0 .. NCELL * NCELL - 1

cache_zero ==
  [stale |-> FALSE,
   tprev |-> 0,
   j |-> [i \in Parts |-> 0],
   x |-> [i \in Parts |-> Zero],
   ijcell |-> [i \in Parts |-> Zero],
   icell |-> [i \in Parts |-> 0],
   part |-> [c \in Cells |-> [n |-> 0, i |-> [g \in Groups |-> 0]]],
   neigh |-> [i \in Parts |-> [n |-> 0, i |-> [k \in Neighs |-> 0]]]]

\* bmm_dem_cache_j
cache_j(p, ipart) == p.jred[ipart] * p.m[ipart] * bmm_fp_sq(p.r[ipart])

\* A cell index that is interpolated from 0 instead of 1.
cache_ijcell_origin(o, x, idim) ==
  LET i == o.ncell[idim] - 1
      t == bmm_fp_lerp(x, 0, o.box_x[idim], 0, i)
  IN IF t < 0 THEN 0
     ELSE IF t >= i THEN i
     ELSE t

\* bmm_dem_cache_ijcell: the cell index of the cached position x along idim.
cache_ijcell(o, x, idim) ==
  LET i == o.ncell[idim] - 1
      a == 1
      b == i
      t == bmm_fp_lerp(x, 0, o.box_x[idim], a, b)
  IN IF t < a THEN 0
     ELSE IF t >= b THEN i
     ELSE t

\* bmm_dem_cache_addpart for the particles ipart, ..., n - 1 in turn; the
\* loop of bmm_dem_cache_build stops at the first cell that is full.
RECURSIVE cache_addparts(_, _, _)
cache_addparts(c, ipart, n) ==
  IF ipart >= n THEN [ok |-> TRUE, cache |-> c]
  ELSE LET icell == c.icell[ipart] IN
    IF c.part[icell].n >= NGROUP THEN [ok |-> FALSE, cache |-> c]
    ELSE cache_addparts(
           [c EXCEPT !.part[icell].i[c.part[icell].n] = ipart,
                     !.part[icell].n = c.part[icell].n + 1],
           ipart + 1, n)

\* bmm_dem_cache_eligible without the tie-break inside a cell.
cache_eligible_notie(o, c, ipart, jpart) ==
  ~(bmm_geom2d_cpdist2(c.x[ipart], c.x[jpart], o.box_x, o.box_per) >
      bmm_fp_sq(o.rcutoff))

\* bmm_dem_cache_eligible
cache_eligible(o, c, ipart, jpart) ==
  /\ ~(c.icell[ipart] = c.icell[jpart] /\ jpart <= ipart)
  /\ ~(bmm_geom2d_cpdist2(c.x[ipart], c.x[jpart], o.box_x, o.box_per) >
         bmm_fp_sq(o.rcutoff))

\* neigh.h, BMM_NEIGH_MASK_UPPERH: the cell itself and the cells whose
\* offset is lexicographically greater than zero.
neigh_upperh == <<Vec(0, 0), Vec(0, 1), Vec(1, -1), Vec(1, 0), Vec(1, 1)>>

\* neigh.h: the cell at offset off of the cell ij.  A periodic dimension
\* wraps over the cells 1, ..., ncell - 2 that lie inside the box.
neigh_ij(ij, off, ncell, per) ==
  [d \in Dims |-> IF per[d]
     THEN ((ij[d] + off[d] - 1) % (ncell[d] - 2)) + 1
     ELSE ij[d] + off[d]]

neigh_inside(ij, ncell) == \A d \in Dims : 0 <= ij[d] /\ ij[d] < ncell[d]

\* neigh.h, bmm_neigh_ncpij and bmm_neigh_icpij: the flattened indices of
\* the neighbor cells of ij under the upper half mask, in order.
neigh_icpij(ij, ncell, per) ==
  LET all == [k \in 1 .. Len(neigh_upperh) |->
                neigh_ij(ij, neigh_upperh[k], ncell, per)]
      kept == SelectSeq(all, LAMBDA c : neigh_inside(c, ncell))
  IN [k \in 1 .. Len(kept) |-> bmm_size_unhcd(kept[k], ncell)]

\* The particles of the cells icells, in the order the loops of
\* bmm_dem_cache_addfrom visit them.
RECURSIVE cache_members(_, _)
cache_members(c, icells) ==
  IF icells = <<>> THEN <<>>
  ELSE LET g == c.part[Head(icells)]
       IN [k \in 1 .. g.n |-> g.i[k - 1]] \o cache_members(c, Tail(icells))

\* bmm_dem_cache_addfrom with the upper half mask.
cache_addfrom(o, c, ipart) ==
  LET cand == cache_members(c, neigh_icpij(c.ijcell[ipart], o.ncell, o.box_per))
      elig == SelectSeq(cand, LAMBDA jpart : cache_eligible(o, c, ipart, jpart))
      room == NNEIGH - c.neigh[ipart].n
      k == IF Len(elig) > room THEN room ELSE Len(elig)
      old == c.neigh[ipart]
  IN [ok |-> Len(elig) <= room,
      cache |-> [c EXCEPT !.neigh[ipart] =
         [n |-> old.n + k,
          i |-> [q \in Neighs |->
                   IF q >= old.n /\ q < old.n + k THEN elig[q - old.n + 1]
                   ELSE old.i[q]]]]]

RECURSIVE cache_addfroms(_, _, _, _)
cache_addfroms(o, c, ipart, n) ==
  IF ipart >= n THEN [ok |-> TRUE, cache |-> c]
  ELSE LET res == cache_addfrom(o, c, ipart) IN
    IF ~res.ok THEN res
    ELSE cache_addfroms(o, res.cache, ipart + 1, n)

\* bmm_dem_cache_build: whether it succeeds and the cache it leaves behind.
cache_build(o, p, c) ==
  LET n == p.n
      c1 == [c EXCEPT !.j = [i \in Parts |-> IF i < n THEN cache_j(p, i) ELSE c.j[i]]]
      c2 == [c1 EXCEPT !.x = [i \in Parts |-> IF i < n THEN p.x[i] ELSE c.x[i]]]
      c3 == [c2 EXCEPT !.ijcell = [i \in Parts |->
               IF i < n THEN [d \in Dims |-> cache_ijcell(o, c2.x[i][d], d)]
               ELSE c.ijcell[i]]]
      c4 == [c3 EXCEPT !.icell = [i \in Parts |->
               IF i < n THEN bmm_size_unhcd(c3.ijcell[i], o.ncell)
               ELSE c.icell[i]]]
      c5 == [c4 EXCEPT !.part = [q \in Cells |-> [c.part[q] EXCEPT !.n = 0]]]
      r6 == cache_addparts(c5, 0, n)
      c7 == [r6.cache EXCEPT !.neigh = [i \in Parts |->
               IF i < n THEN [c.neigh[i] EXCEPT !.n = 0] ELSE c.neigh[i]]]
      r8 == cache_addfroms(o, c7, 0, n)
  IN IF ~r6.ok THEN r6
     ELSE IF ~r8.ok THEN r8
     ELSE [ok |-> TRUE, cache |-> [r8.cache EXCEPT !.stale = FALSE]]

\* bmm_dem_cache_build
CacheBuild ==
  /\ pc = "api"
  /\ LET res == cache_build(opts, part, cache)
     IN /\ cache' = res.cache
        /\ ret' = IF res.ok THEN 1 ELSE 0
  /\ UNCHANGED <<call, opts, time, part, link, script, comm, rng, sig, pc, sink, tle>>

-----------------------------------------------------------------------------
(***************************************************************************)
(* Options and construction.                                               *)
(***************************************************************************)

NSTAGE == 2
Stages == 0 .. NSTAGE - 1

\* bmm_dem_opts_def.  ccrlink = 1.2 and cshlink = 0.8 are kept as fractions.
opts_def ==
  [integ |-> "EULER", caching |-> "NEIGH", famb |-> "CREEPING",
   fnorm |-> "DASHPOT", ftang |-> "HW", flink |-> "NONE",
   norm_gamma |-> 1, tang_gamma |-> 1, tang_mu |-> 1,
   box_x |-> Vec(1, 1), box_per |-> Vec(FALSE, FALSE),
   istab |-> 1000,
   y |-> 1, rnew |-> Vec(1, 1),
   ccrlink |-> Vec(6, 5), cshlink |-> Vec(4, 5),
   crlim |-> Vec(1, 1), cphilim |-> Vec(1, 1),
   script_n |-> 0,
   script_tspan |-> [i \in Stages |-> 0],
   script_dt |-> [i \in Stages |-> 0],
   script_mode |-> [i \in Stages |-> "IDLE"],
   create_eta |-> [i \in Stages |-> Vec(0, 1)],
   sediment_kcohes |-> [i \in Stages |-> 0],
   comm_dt |-> 1,
   ncell |-> Vec(5, 5), rcutoff |-> 1]

time_zero == [t |-> 0, istep |-> 0]
script_zero == [i |-> 0, tprev |-> 0, toff |-> [i \in Stages |-> 0]]
comm_zero == [tprev |-> 0]

\* bmm_dem_def: the simulation after construction with the options o.
dem_def(o) ==
  /\ opts = o
  /\ time = time_zero
  /\ part = part_zero
  /\ link = link_zero
  /\ cache = cache_zero
  /\ script = script_zero
  /\ comm = comm_zero

-----------------------------------------------------------------------------
(***************************************************************************)
(* The particle and link stores driven through their interface.            *)
(***************************************************************************)

\* A box of three by two cells of width four, periodic along dimension 0
\* as bmm_dem_run_ sets it.
opts_store ==
  [opts_def EXCEPT !.box_x = Vec(12, 8), !.box_per = Vec(TRUE, FALSE),
                   !.ncell = Vec(5, 4), !.rcutoff = 4]

InitStore ==
  /\ dem_def([opts_store EXCEPT !.caching = "NONE", !.flink = "BEAM"])
  /\ rng \in RngStates
  /\ sig = "NONE"
  /\ pc = "api"
  /\ ret = 0
  /\ sink = <<>>
  /\ tle = ""
  /\ call = <<>>

NextStore ==
  \/ AddPart
  \/ \E ipart \in Parts : RemPart(ipart)
  \/ Link
  \/ Unlink

SpecStore == InitStore /\ [][NextStore]_vars

(***************************************************************************)
(* Particles added at chosen places, and the cache built over them.        *)
(***************************************************************************)

\* Where the model places new particles, and with which radii.
PlaceX == {Vec(11, 1), Vec(6, 5)}
PlaceR == {1, 2}

\* A particle is added and given a radius, a mass and a position, as in the
\* loop body of bmm_dem_script_create_hc.
place_part(p, r, x) ==
  LET ipart == p.n
      q == addpart_part(p)
  IN [q EXCEPT !.r[ipart] = r, !.m[ipart] = r * r, !.x[ipart] = x]

PlacePart(r, x) ==
  /\ pc = "api"
  /\ part.n < MPART
  /\ part' = place_part(part, r, x)
  /\ ret' = addpart_ret(part)
  /\ cache' = [cache EXCEPT !.stale = addpart_stale(part, cache.stale)]
  /\ UNCHANGED <<call, opts, time, link, script, comm, rng, sig, pc, sink, tle>>

InitAdd ==
  /\ \E c \in {"NONE", "NEIGH"} : dem_def([opts_store EXCEPT !.caching = c])
  /\ rng = 0
  /\ sig = "NONE"
  /\ pc = "api"
  /\ ret = 0
  /\ sink = <<>>
  /\ tle = ""
  /\ call = <<>>

NextAdd ==
  \/ AddPart
  \/ \E r \in PlaceR, x \in PlaceX : PlacePart(r, x)
  \/ CacheBuild

SpecAdd == InitAdd /\ [][NextAdd]_vars

(***************************************************************************)
(* Removal from a store in the middle of a simulation: every field of      *)
(* every slot may hold a value of its own.                                 *)
(***************************************************************************)

Roles == <<"FREE", "FIXED", "DRIVEN">>

\* A particle table with n active particles in which every field of the
\* slot k is determined by the pattern c[k].
part_pattern(n, c) ==
  [n |-> n, lnew |-> 2 * MPART,
   role |-> [k \in Parts |-> Roles[c[k] + 1]],
   l |-> [k \in Parts |-> 2 * k + c[k]],
   r |-> [k \in Parts |-> 1 + c[k]],
   m |-> [k \in Parts |-> (1 + c[k]) * (1 + c[k])],
   jred |-> [k \in Parts |-> 1 + c[k]],
   x |-> [k \in Parts |-> Vec(1 + 2 * k, 1 + 4 * c[k])],
   v |-> [k \in Parts |-> Vec(c[k], -c[k])],
   a |-> [k \in Parts |-> Vec(-c[k], c[k])],
   phi |-> [k \in Parts |-> 3 * c[k]],
   omega |-> [k \in Parts |-> 2 * c[k]],
   alpha |-> [k \in Parts |-> -c[k]],
   f |-> [k \in Parts |-> Vec(2 * c[k], c[k])],
   tau |-> [k \in Parts |-> 5 * c[k]]]

\* Link lists in which the slot k holds d[k] bonds.
link_pattern(c, d) ==
  [part |-> [k \in Parts |->
    [n |-> d[k],
     i |-> [q \in Links |-> IF q < d[k] THEN (k + q + 1) % MPART ELSE 0],
     rrest |-> [q \in Links |-> IF q < d[k] THEN 1 + q + c[k] ELSE 0],
     phirest |-> [q \in Links |-> IF q < d[k] THEN Vec(c[k] + q, -q) ELSE Zero],
     rlim |-> [q \in Links |-> IF q < d[k] THEN 2 + q + c[k] ELSE 0],
     philim |-> [q \in Links |-> IF q < d[k] THEN M_2PI + q + c[k] ELSE 0]]]]

InitRem ==
  /\ opts = [opts_store EXCEPT !.caching = "NONE", !.flink = "BEAM"]
  /\ time = time_zero
  /\ \E n \in 1 .. MPART, c \in [Parts -> 0 .. 1], d \in [Parts -> 0 .. NLINK] :
       /\ part = part_pattern(n, c)
       /\ link = link_pattern(c, d)
  /\ cache = cache_zero
  /\ script = script_zero
  /\ comm = comm_zero
  /\ rng = 0
  /\ sig = "NONE"
  /\ pc = "api"
  /\ ret = 0
  /\ sink = <<>>
  /\ tle = ""
  /\ call = <<>>

NextRem == \E ipart \in Parts : RemPart(ipart)

SpecRem == InitRem /\ [][NextRem]_vars

-----------------------------------------------------------------------------
(***************************************************************************)
(* Forces and integration.  Quotients are rounded toward zero.             *)
(***************************************************************************)

fp_div(x, y) == IF x >= 0 THEN x \div y ELSE -((-x) \div y)

\* A maximum that is always its first argument.
fp_max_left(x, y) == x

fp_max(x, y) == IF x >= y THEN x ELSE y
fp_min(x, y) == IF x <= y THEN x ELSE y

\* copysign(x, y) for x >= 0.
fp_copysign(x, y) == IF y < 0 THEN -x ELSE x

bmm_geom2d_dot(x, y) == x[0] * y[0] + x[1] * y[1]

\* bmm_geom2d_rperp: the vector turned a quarter turn to the right.
bmm_geom2d_rperp(x) == Vec(x[1], -x[0])

bmm_geom2d_add(x, y) == [d \in Dims |-> x[d] + y[d]]

\* bmm_geom2d_scale by the ratio num / den.
geom2d_scale(x, num, den) == [d \in Dims |-> fp_div(x[d] * num, den)]

\* bmm_dem_force_pair: the particle table after the contact of ipart and
\* jpart has been added to the forces and torques.
force_pair(o, p, ipart, jpart) ==
  LET xdiff == bmm_geom2d_cpdiff(p.x[ipart], p.x[jpart], o.box_x, o.box_per)
      d2 == bmm_geom2d_norm2(xdiff)
      r == p.r[ipart] + p.r[jpart]
      r2 == bmm_fp_sq(r)
  IN IF d2 > r2 \/ d2 = 0 THEN p
     ELSE
       LET d == fp_sqrt(d2)
           xtang == bmm_geom2d_rperp(xdiff)
           vdiff == bmm_geom2d_diff(p.v[ipart], p.v[jpart])
           xi == r - d
           dotxi == fp_div(bmm_geom2d_dot(vdiff, xdiff), d)
           vtang == fp_div(bmm_geom2d_dot(vdiff, xtang), d)
                      + p.r[ipart] * p.omega[ipart]
                      + p.r[jpart] * p.omega[jpart]
           fn == IF o.fnorm = "DASHPOT"
                 THEN fp_max(0, o.y * xi + o.norm_gamma * dotxi)
                 ELSE 0
           fdiff == geom2d_scale(xdiff, -fn, d)
           ft == IF o.ftang = "HW"
                 THEN -fp_copysign(fp_min(o.tang_gamma * fp_abs(vtang),
                                          o.tang_mu * fn), vtang)
                 ELSE 0
           tdiff == geom2d_scale(xtang, ft, d)
       IN [p EXCEPT
             !.f[ipart] = bmm_geom2d_add(bmm_geom2d_add(@, fdiff), tdiff),
             !.f[jpart] = bmm_geom2d_diff(bmm_geom2d_diff(@, fdiff), tdiff),
             !.tau[ipart] = @ + ft * p.r[ipart],
             !.tau[jpart] = @ + ft * p.r[jpart]]

\* bmm_dem_force_ambient: CREEPING takes a hundredth off the force.
force_ambient(o, f) ==
  IF o.famb = "CREEPING" THEN [d \in Dims |-> fp_div(f[d] * 99, 100)]
  ELSE f

\* bmm_dem_force_external: the force on a particle at x in the stage i.
force_external(o, i, x, f) ==
  IF o.script_mode[i] = "SEDIMENT"
  THEN [f EXCEPT ![1] = @ + o.sediment_kcohes[i] * (o.box_x[1] \div 2 - x[1])]
  ELSE f

\* bmm_dem_force_pair applied to the pairs in turn.
RECURSIVE force_pairs(_, _, _)
force_pairs(o, p, pairs) ==
  IF pairs = <<>> THEN p
  ELSE force_pairs(o, force_pair(o, p, Head(pairs)[1], Head(pairs)[2]),
                   Tail(pairs))

\* bmm_dem_force up to its second loop: forces and torques are cleared,
\* then the ambient law is applied to the force of every particle.
force_ambients(o, p) ==
  LET n == p.n
      p1 == [p EXCEPT
               !.f = [k \in Parts |-> IF k < n THEN Zero ELSE p.f[k]],
               !.tau = [k \in Parts |-> IF k < n THEN 0 ELSE p.tau[k]]]
  IN [p1 EXCEPT
        !.f = [k \in Parts |->
                 IF k < n THEN force_ambient(o, p1.f[k]) ELSE p1.f[k]]]

\* A force evaluation in which the ambient pass follows the pair contacts.
force_ambient_last(o, p, c, i) ==
  LET n == p.n
      p1 == [p EXCEPT
               !.f = [k \in Parts |-> IF k < n THEN Zero ELSE p.f[k]],
               !.tau = [k \in Parts |-> IF k < n THEN 0 ELSE p.tau[k]]]
      p2 == force_pairs(o, p1, pairs_of(o, p1, c))
  IN [p2 EXCEPT
        !.f = [k \in Parts |->
                 IF k < n
                 THEN force_external(o, i, p2.x[k], force_ambient(o, p2.f[k]))
                 ELSE p2.f[k]]]

\* bmm_dem_force: forces and torques are cleared, then the ambient, pair
\* and external forces are added; the link forces are a stub.
force(o, p, c, i) ==
  LET n == p.n
      p2 == force_ambients(o, p)
      p3 == force_pairs(o, p2, pairs_of(o, p2, c))
  IN [p3 EXCEPT
        !.f = [k \in Parts |->
                 IF k < n THEN force_external(o, i, p3.x[k], p3.f[k])
                 ELSE p3.f[k]]]

\* bmm_dem_integ_euler that wraps along the first dimension alone.
integ_euler_wrapx(o, p, c, dt) ==
  LET n == p.n
      a == [k \in Parts |-> [d \in Dims |-> fp_div(p.f[k][d], p.m[k])]]
      v == [k \in Parts |-> [d \in Dims |-> p.v[k][d] + a[k][d] * dt]]
      x == [k \in Parts |-> [d \in Dims |->
              LET y == p.x[k][d] + v[k][d] * dt
              IN IF o.box_per[d] /\ d = 0 THEN bmm_fp_uwrap(y, o.box_x[d]) ELSE y]]
      alpha == [k \in Parts |-> fp_div(2 * p.tau[k], c.j[k])]
  IN [p EXCEPT
        !.a = [k \in Parts |-> IF k < n THEN a[k] ELSE p.a[k]],
        !.v = [k \in Parts |-> IF k < n THEN v[k] ELSE p.v[k]],
        !.x = [k \in Parts |-> IF k < n THEN x[k] ELSE p.x[k]],
        !.alpha = [k \in Parts |-> IF k < n THEN alpha[k] ELSE p.alpha[k]],
        !.phi = [k \in Parts |->
                   IF k < n THEN p.phi[k] + p.omega[k] * dt ELSE p.phi[k]],
        !.omega = [k \in Parts |->
                     IF k < n THEN p.omega[k] + alpha[k] * dt
                     ELSE p.omega[k]]]

\* bmm_dem_integ_euler with the time step dt.
integ_euler(o, p, c, dt) ==
  LET n == p.n
      a == [k \in Parts |-> [d \in Dims |-> fp_div(p.f[k][d], p.m[k])]]
      v == [k \in Parts |-> [d \in Dims |-> p.v[k][d] + a[k][d] * dt]]
      x == [k \in Parts |-> [d \in Dims |->
              LET y == p.x[k][d] + v[k][d] * dt
              IN IF o.box_per[d] THEN bmm_fp_uwrap(y, o.box_x[d]) ELSE y]]
      alpha == [k \in Parts |-> fp_div(2 * p.tau[k], c.j[k])]
  IN [p EXCEPT
        !.a = [k \in Parts |-> IF k < n THEN a[k] ELSE p.a[k]],
        !.v = [k \in Parts |-> IF k < n THEN v[k] ELSE p.v[k]],
        !.x = [k \in Parts |-> IF k < n THEN x[k] ELSE p.x[k]],
        !.alpha = [k \in Parts |-> IF k < n THEN alpha[k] ELSE p.alpha[k]],
        !.phi = [k \in Parts |->
                   IF k < n THEN p.phi[k] + p.omega[k] * dt ELSE p.phi[k]],
        !.omega = [k \in Parts |->
                     IF k < n THEN p.omega[k] + alpha[k] * dt
                     ELSE p.omega[k]]]

\* bmm_dem_stab
stab(p) ==
  [p EXCEPT !.phi = [k \in Parts |->
     IF k < p.n THEN bmm_fp_uwrap(p.phi[k], M_2PI) ELSE p.phi[k]]]

\* bmm_dem_predict: nothing to do for the Euler scheme.
predict(o, p) == p

\* bmm_dem_correct
correct(o, p, c, dt) ==
  IF o.integ = "EULER" THEN integ_euler(o, p, c, dt) ELSE p

-----------------------------------------------------------------------------
(***************************************************************************)
(* The script, the step and the snapshots.                                 *)
(***************************************************************************)

\* An expiry that a particle at its radius from the half width does not
\* yet cause.
cache_expired_strict(o, p, c) ==
  \E idim \in Dims : \E ipart \in Parts :
    /\ ipart < p.n
    /\ LET dx == o.box_x[idim] \div ((o.ncell[idim] - 2) * 2)
       IN fp_abs(bmm_fp_swrap(p.x[ipart][idim] - c.x[ipart][idim],
                              o.box_x[idim])) > dx - p.r[ipart]

\* bmm_dem_cache_expired: some particle has come within its radius of the
\* half width dx of a cell since the positions were cached.
cache_expired(o, p, c) ==
  \E idim \in Dims : \E ipart \in Parts :
    /\ ipart < p.n
    /\ LET dx == o.box_x[idim] \div ((o.ncell[idim] - 2) * 2)
       IN fp_abs(bmm_fp_swrap(p.x[ipart][idim] - c.x[ipart][idim],
                              o.box_x[idim])) >= dx - p.r[ipart]

\* bmm_geom_ballvol(r, 2), in units of pi.
bmm_geom_ballvol(r) == r * r

\* bmm_fp_prod over the dimensions.
bmm_fp_prod(x) == x[0] * x[1]

\* The loop of bmm_dem_script_create_hc.  st holds the particle table, the
\* stale flag, the generator, the cursor x, rmax, vnow, and whether
\* bmm_dem_addpart has returned SIZE_MAX, after which the new radius, mass
\* and position are written outside the arrays.
RECURSIVE create_hc_loop(_, _, _)
create_hc_loop(o, st, vlim) ==
  LET r == bmm_rng_get(st.rng, o.rnew)
      v == bmm_geom_ballvol(r)
      vnext == st.vnow + v
  IN IF ~(vnext < vlim) THEN [st EXCEPT !.rng = rng_next(st.rng)]
     ELSE
       LET ipart == addpart_ret(st.part)
           q == addpart_part(st.part)
           newrow == st.x[0] + 2 * r >= o.box_x[0]
           x == IF newrow THEN Vec(0, st.x[1] + 2 * st.rmax) ELSE st.x
           rmax == IF newrow THEN 0 ELSE st.rmax
       IN create_hc_loop(o,
            [part |-> IF ipart = SIZE_MAX THEN q
                      ELSE [q EXCEPT !.r[ipart] = r,
                                     !.m[ipart] = v,
                                     !.x[ipart] = [d \in Dims |-> x[d] + r]],
             stale |-> addpart_stale(st.part, st.stale),
             rng |-> rng_next(st.rng),
             x |-> Vec(x[0] + 2 * r, x[1]),
             rmax |-> fp_max(rmax, r),
             vnow |-> vnext,
             stray |-> st.stray \/ ipart = SIZE_MAX],
            vlim)

\* bmm_dem_script_create_hc in the stage i.  The packing fraction eta is a
\* ratio of integers, in units of pi like the volumes.
script_create_hc(o, p, stale, g, i) ==
  LET vhc == bmm_fp_prod(o.box_x)
      vlim == (vhc * o.create_eta[i][0]) \div o.create_eta[i][1]
  IN create_hc_loop(o,
       [part |-> p, stale |-> stale, rng |-> g, x |-> Zero, rmax |-> 0,
        vnow |-> 0, stray |-> FALSE],
       vlim)

\* bmm_dem_script_ongoing
script_ongoing(o, s) == s.i < o.script_n

\* bmm_dem_script_trans: the script state it leaves behind.
script_trans(o, s, t) ==
  LET toff == t - s.tprev - o.script_tspan[s.i]
  IN IF toff >= 0
     THEN [s EXCEPT !.tprev = t, !.toff[s.i] = toff, !.i = s.i + 1]
     ELSE s

\* bmm_dem_script_trans: whether the simulation continues.
script_trans_ret(o, s, t) ==
  LET toff == t - s.tprev - o.script_tspan[s.i]
  IN IF toff >= 0 THEN script_ongoing(o, script_trans(o, s, t)) ELSE TRUE

-----------------------------------------------------------------------------
(***************************************************************************)
(* Message headers.  An octet is a number below 256; a size_t is the       *)
(* vector of its eight octets, the least significant first.                *)
(***************************************************************************)

BMM_MSG_FLAGSIZE == 1
BMM_MSG_PRESIZE == 8
BMM_MSG_HEADSIZE == BMM_MSG_FLAGSIZE + BMM_MSG_PRESIZE
BMM_MSG_NUMSIZE == 1

Octets == 0 .. 255
PreIdx == 0 .. BMM_MSG_PRESIZE - 1

\* BMM_MASKBITS_n: the octet with the bits of the set bits set.
bmm_maskbits(bits) ==
  LET sum[k \in 0 .. 8] ==
        IF k = 8 THEN 0
        ELSE (IF k \in bits THEN 2 ^ k ELSE 0) + sum[k + 1]
  IN sum[0]

BMM_MSG_MASK_PRIO == bmm_maskbits({7})
BMM_MSG_MASK_ENDIAN == bmm_maskbits({6, 5, 4})
BMM_MSG_MASK_VAR == bmm_maskbits({3})
BMM_MSG_MASK_TAG == bmm_maskbits({2})
BMM_MSG_MASK_FIXSIZE == bmm_maskbits({2, 1, 0})

\* A mask of the length field that leaves out its upper bit.
BMM_MSG_MASK_VARSIZE_low == bmm_maskbits({0})

BMM_MSG_MASK_VARSIZE == bmm_maskbits({1, 0})

\* x & y on octets.
bit_and(x, y) ==
  LET sum[k \in 0 .. 8] ==
        IF k = 8 THEN 0
        ELSE ((x \div 2 ^ k) % 2) * ((y \div 2 ^ k) % 2) * 2 ^ k + sum[k + 1]
  IN sum[0]

\* The size_t of a number below 2^31, and back.
size_of(n) ==
  [k \in PreIdx |-> IF k < 4 THEN (n \div 256 ^ k) % 256 ELSE 0]

size_val(sz) == sz[0] + 256 * sz[1] + 65536 * sz[2] + 16777216 * sz[3]

size_zero == [k \in PreIdx |-> 0]

\* The number of octets of a size_t up to its most significant nonzero one.
size_nsig(sz) ==
  LET nz == {k \in PreIdx : sz[k] # 0}
  IN IF nz = {} THEN 0 ELSE 1 + CHOOSE k \in nz : \A q \in nz : q <= k

\* bmm_msg_spec_def: a low-priority little-endian size-prefixed message.
bmm_msg_spec_def ==
  [prio |-> "LOW", endian |-> "LITTLE", tag |-> "SP",
   size |-> size_zero, e |-> 0, buf |-> size_zero]

\* The flag octet of a header but for its length field.
msg_flags(spec) ==
  (IF spec.prio = "HIGH" THEN BMM_MSG_MASK_PRIO ELSE 0) +
  (IF spec.endian = "BIG" THEN bmm_maskbits({4}) ELSE 0)

\* The octets 0, ..., n - 1 of buf in the order of the endianness.
msg_pre(buf, n, endian) ==
  [k \in 1 .. n |-> IF endian = "BIG" THEN buf[n - k] ELSE buf[k - 1]]

\* bmm_msg_spec_write: the header of the message specification spec.  A size
\* below 8 stands in the flag octet; a longer one follows it in 1, 2, 4 or
\* 8 octets; a terminator follows it in 2^e octets.
bmm_msg_spec_write(spec) ==
  IF spec.tag = "SP"
  THEN LET nsig == size_nsig(spec.size) IN
    IF nsig <= 1 /\ spec.size[0] <= BMM_MSG_MASK_FIXSIZE
    THEN <<msg_flags(spec) + bit_and(spec.size[0], BMM_MSG_MASK_FIXSIZE)>>
    ELSE LET e == IF nsig <= 1 THEN 0 ELSE IF nsig <= 2 THEN 1
                  ELSE IF nsig <= 4 THEN 2 ELSE 3
         IN <<msg_flags(spec) + BMM_MSG_MASK_VAR + bit_and(e, BMM_MSG_MASK_VARSIZE)>>
            \o msg_pre(spec.size, 2 ^ e, spec.endian)
  ELSE <<msg_flags(spec) + BMM_MSG_MASK_VAR + BMM_MSG_MASK_TAG
           + bit_and(spec.e, BMM_MSG_MASK_VARSIZE)>>
       \o msg_pre(spec.buf, 2 ^ spec.e, "LITTLE")

\* bmm_msg_spec_read: whether the octets begin with a header, the message
\* specification it carries and the number of octets it takes.
bmm_msg_spec_read(octets) ==
  IF octets = <<>> THEN [ok |-> FALSE, spec |-> bmm_msg_spec_def, n |-> 0]
  ELSE
    LET flags == octets[1]
        prio == IF bit_and(flags, BMM_MSG_MASK_PRIO) # 0 THEN "HIGH" ELSE "LOW"
        endy == bit_and(flags, BMM_MSG_MASK_ENDIAN) \div 16
        endian == IF endy = 1 THEN "BIG" ELSE "LITTLE"
        var == bit_and(flags, BMM_MSG_MASK_VAR) # 0
        e == bit_and(flags, BMM_MSG_MASK_VARSIZE)
        n == 2 ^ e
        pre == [k \in PreIdx |->
                  IF k >= n THEN 0
                  ELSE IF endian = "BIG" THEN octets[1 + n - k]
                  ELSE octets[2 + k]]
        lit == [k \in PreIdx |-> IF k >= n THEN 0 ELSE octets[2 + k]]
        base == [bmm_msg_spec_def EXCEPT !.prio = prio, !.endian = endian]
    IN IF endy > 1 THEN [ok |-> FALSE, spec |-> base, n |-> 1]
       ELSE IF ~var
       THEN [ok |-> TRUE, n |-> 1,
             spec |-> [base EXCEPT
                !.size = size_of(bit_and(flags, BMM_MSG_MASK_FIXSIZE))]]
       ELSE IF Len(octets) < 1 + n THEN [ok |-> FALSE, spec |-> base, n |-> 1]
       ELSE IF bit_and(flags, BMM_MSG_MASK_TAG) # 0
       THEN [ok |-> TRUE, n |-> 1 + n,
             spec |-> [base EXCEPT !.tag = "LT", !.e = e, !.buf = lit]]
       ELSE [ok |-> TRUE, n |-> 1 + n, spec |-> [base EXCEPT !.size = pre]]

\* bmm_dem_comm: whether a snapshot is due at the time t.
comm_due(o, cm, t) == t - cm.tprev - o.comm_dt >= 0

\* bmm_dem_comm that keeps the time of the first snapshot.
comm_tprev_kept(o, cm, t) == cm

\* bmm_dem_comm: the communication state it leaves behind.
comm_tprev(o, cm, t) ==
  IF comm_due(o, cm, t) THEN [cm EXCEPT !.tprev = t] ELSE cm

\* sizeof of the members of struct bmm_dem, in octets of 8-octet words.
sizeof_dem ==
  [time |-> 16,
   cache |-> 8 * (3 + MPART * (6 + NNEIGH) + NCELL * NCELL * (1 + NGROUP)),
   link |-> 8 * MPART * (1 + 7 * NLINK),
   part_n |-> 8,
   part |-> 8 * (2 + 17 * MPART)]

\* bmm_dem_sniff_size that counts the particle table alone.
bmm_dem_sniff_size_table(num) ==
  CASE num = "ISTEP" -> sizeof_dem.time
    [] num = "NEIGH" -> sizeof_dem.cache + sizeof_dem.link
    [] num = "PARTS" -> sizeof_dem.part

\* bmm_dem_sniff_size: the size of the body of the message num.
bmm_dem_sniff_size(num) ==
  CASE num = "ISTEP" -> sizeof_dem.time
    [] num = "NEIGH" -> sizeof_dem.cache + sizeof_dem.link
    [] num = "PARTS" -> sizeof_dem.part_n + sizeof_dem.part

\* bmm_dem_puts_stuff: the sizes of the writes that make up the body.
bmm_dem_puts_stuff(num) ==
  CASE num = "ISTEP" -> <<sizeof_dem.time>>
    [] num = "NEIGH" -> <<sizeof_dem.cache, sizeof_dem.link>>
    [] num = "PARTS" -> <<sizeof_dem.part_n, sizeof_dem.part>>

\* bmm_dem_puts: the writes of the message num in order: the header, the
\* message number and the body.  Each write is marked with the message it
\* belongs to and with the time of the snapshot; last marks the write that
\* completes the message.
bmm_dem_puts(num, tm) ==
  LET spec == [bmm_msg_spec_def EXCEPT
                 !.size = size_of(bmm_dem_sniff_size(num) + BMM_MSG_NUMSIZE)]
      head == bmm_msg_spec_write(spec)
      stuff == bmm_dem_puts_stuff(num)
      wr(what, n, octets, last) ==
        [num |-> num, what |-> what, n |-> n, octets |-> octets,
         last |-> last, istep |-> tm.istep, t |-> tm.t]
  IN <<wr("head", Len(head), head, FALSE),
       wr("num", BMM_MSG_NUMSIZE, <<>>, FALSE)>>
     \o [k \in 1 .. Len(stuff) |-> wr("body", stuff[k], <<>>, k = Len(stuff))]

\* The writes of one snapshot, in the order bmm_dem_comm makes them.
comm_msgs(tm) ==
  bmm_dem_puts("ISTEP", tm) \o bmm_dem_puts("NEIGH", tm)
    \o bmm_dem_puts("PARTS", tm)

\* bmm_dem_step that reads the step counter after its increment.
step_stab_due_after(o, tm) == (tm.istep + 1) % o.istab = 0

\* bmm_dem_step: whether stabilization is due.
step_stab_due(o, tm) == tm.istep % o.istab = 0

\* bmm_dem_step: the time after the step.
step_tick(o, tm, i) == [t |-> tm.t + o.script_dt[i], istep |-> tm.istep + 1]

\* bmm_dem_step that builds the cache only when it has expired.
step_build_due_expired(o, p, c) == cache_expired(o, p, c)

\* bmm_dem_step: whether the cache is built before the forces.
step_build_due(o, p, c) == c.stale \/ cache_expired(o, p, c)

\* The signals bmm_dem_run_ registers with sig.h.
Sigs == {"INT", "QUIT", "TERM", "PIPE"}

\* bmm_dem_run_ that does not take a broken pipe for an interruption.
run_interrupts_nopipe(signum) == signum \in {"INT", "QUIT", "TERM"}

\* bmm_dem_run_: the signals that end the run.
run_interrupts(signum) == signum \in {"INT", "QUIT", "TERM", "PIPE"}

\* bmm_dem_run_ that takes a failed snapshot for the end of the script.
run_ret_commtrue(site) ==
  IF site \in {"ret_ongoing", "ret_trans", "ret_comm"} THEN 1 ELSE 0

\* bmm_dem_run_: what each of its return statements returns.
run_ret(site) == IF site \in {"ret_ongoing", "ret_trans"} THEN 1 ELSE 0

\* The positions inside the loop of bmm_dem_run_ and inside bmm_dem_step.
InStep == {"step", "cache", "predict", "force", "correct", "stab", "tick"}
InLoop == {"poll", "ongoing", "comm", "trans"} \cup InStep
Returned == {"ret_register", "ret_sig", "ret_ongoing", "ret_comm",
             "ret_trans", "ret_step"}

\* The options bmm_dem_run_ overrides before its loop, with lengths in
\* hundredths and times in halves of a thousandth.
run_opts(o) ==
  [o EXCEPT !.box_per = Vec(TRUE, FALSE),
            !.rcutoff = 50,
            !.rnew = Vec(4, 6),
            !.y = 1000,
            !.norm_gamma = 1,
            !.comm_dt = 2]

\* bmm_dem_run_ up to its loop: the handlers are registered, which may fail.
Register ==
  /\ pc = "register"
  /\ \/ /\ pc' = "poll"
        /\ opts' = run_opts(opts)
        /\ UNCHANGED <<ret, tle>>
     \/ /\ pc' = "ret_register"
        /\ ret' = run_ret("ret_register")
        /\ tle' = "errno"
        /\ UNCHANGED opts
  /\ UNCHANGED <<call, time, part, link, cache, script, comm, rng, sig, sink>>

\* A registered signal arrives: the handler of sig.h latches it.
Signal(signum) ==
  /\ pc \in InLoop
  /\ sig' = signum
  /\ UNCHANGED <<call, opts, time, part, link, cache, script, comm, rng, pc, ret,
                 sink, tle>>

\* bmm_dem_run_: bmm_sig_use takes the latched signal, if any.
Poll ==
  /\ pc = "poll"
  /\ sig' = "NONE"
  /\ IF sig # "NONE" /\ run_interrupts(sig)
     THEN /\ pc' = "ret_sig"
          /\ ret' = run_ret("ret_sig")
          /\ tle' = "Interrupted"
     ELSE /\ pc' = "ongoing"
          /\ UNCHANGED <<ret, tle>>
  /\ UNCHANGED <<call, opts, time, part, link, cache, script, comm, rng, sink>>

\* bmm_dem_run_: if (!bmm_dem_script_ongoing(dem)) return true
Ongoing ==
  /\ pc = "ongoing"
  /\ IF script_ongoing(opts, script)
     THEN pc' = "comm" /\ UNCHANGED ret
     ELSE pc' = "ret_ongoing" /\ ret' = run_ret("ret_ongoing")
  /\ UNCHANGED <<call, opts, time, part, link, cache, script, comm, rng, sig, sink,
                 tle>>

\* bmm_dem_run_: if (!bmm_dem_comm(dem)) return false.  Of the three
\* messages of a due snapshot the first k are written before one fails.
Comm ==
  /\ pc = "comm"
  /\ comm' = comm_tprev(opts, comm, time.t)
  /\ IF comm_due(opts, comm, time.t)
     THEN \E k \in 0 .. Len(comm_msgs(time)) :
            /\ sink' = sink \o SubSeq(comm_msgs(time), 1, k)
            /\ IF k = Len(comm_msgs(time))
               THEN pc' = "trans" /\ UNCHANGED <<ret, tle>>
               ELSE /\ pc' = "ret_comm"
                    /\ ret' = run_ret("ret_comm")
                    /\ tle' = "errno"
     ELSE pc' = "trans" /\ UNCHANGED <<sink, ret, tle>>
  /\ UNCHANGED <<call, opts, time, part, link, cache, script, rng, sig>>

\* bmm_dem_run_: if (!bmm_dem_script_trans(dem)) return true
Trans ==
  /\ pc = "trans"
  /\ script' = script_trans(opts, script, time.t)
  /\ IF script_trans_ret(opts, script, time.t)
     THEN pc' = "step" /\ UNCHANGED ret
     ELSE pc' = "ret_trans" /\ ret' = run_ret("ret_trans")
  /\ UNCHANGED <<call, opts, time, part, link, cache, comm, rng, sig, sink, tle>>

\* bmm_dem_step, the switch on the mode of the stage.  A CREATE stage adds
\* particles; once the store is full the writes behind the sentinel index
\* are undefined: the process is killed for them, or they are lost and the
\* step goes on.
StepMode ==
  /\ pc = "step"
  /\ IF opts.script_mode[script.i] = "CREATE"
     THEN LET st == script_create_hc(opts, part, cache.stale, rng, script.i)
          IN /\ part' = st.part
             /\ cache' = [cache EXCEPT !.stale = st.stale]
             /\ rng' = st.rng
             /\ \/ pc' = "cache"
                \/ st.stray /\ pc' = "crashed"
     ELSE pc' = "cache" /\ UNCHANGED <<part, cache, rng>>
  /\ UNCHANGED <<call, opts, time, link, script, comm, sig, ret, sink, tle>>

\* bmm_dem_step that goes on after a failed build.
step_cache_goon(o, p, c, t) ==
  IF step_build_due(o, p, c)
  THEN [ok |-> TRUE, cache |-> [cache_build(o, p, c).cache EXCEPT !.tprev = t]]
  ELSE [ok |-> TRUE, cache |-> c]

\* bmm_dem_step: the cache is built if it is stale or has expired, and the
\* time of the build is kept; a failed build fails the step.
step_cache(o, p, c, t) ==
  IF step_build_due(o, p, c)
  THEN LET res == cache_build(o, p, c)
       IN IF res.ok
          THEN [ok |-> TRUE, cache |-> [res.cache EXCEPT !.tprev = t]]
          ELSE [ok |-> FALSE, cache |-> res.cache]
  ELSE [ok |-> TRUE, cache |-> c]

\* bmm_dem_step up to the forces; a failed step ends the run.
StepCache ==
  /\ pc = "cache"
  /\ LET res == step_cache(opts, part, cache, time.t)
     IN /\ cache' = res.cache
        /\ IF res.ok
           THEN pc' = "predict" /\ UNCHANGED ret
           ELSE pc' = "ret_step" /\ ret' = run_ret("ret_step")
  /\ UNCHANGED <<call, opts, time, part, link, script, comm, rng, sig, sink, tle>>

StepPredict ==
  /\ pc = "predict"
  /\ part' = predict(opts, part)
  /\ pc' = "force"
  /\ UNCHANGED <<call, opts, time, link, cache, script, comm, rng, sig, ret, sink,
                 tle>>

StepForce ==
  /\ pc = "force"
  /\ part' = force(opts, part, cache, script.i)
  /\ pc' = "correct"
  /\ UNCHANGED <<call, opts, time, link, cache, script, comm, rng, sig, ret, sink,
                 tle>>

StepCorrect ==
  /\ pc = "correct"
  /\ part' = correct(opts, part, cache, opts.script_dt[script.i])
  /\ pc' = "stab"
  /\ UNCHANGED <<call, opts, time, link, cache, script, comm, rng, sig, ret, sink,
                 tle>>

StepStab ==
  /\ pc = "stab"
  /\ part' = IF step_stab_due(opts, time) THEN stab(part) ELSE part
  /\ pc' = "tick"
  /\ UNCHANGED <<call, opts, time, link, cache, script, comm, rng, sig, ret, sink,
                 tle>>

\* bmm_dem_step: the time and the step counter advance; back to the loop.
StepTick ==
  /\ pc = "tick"
  /\ time' = step_tick(opts, time, script.i)
  /\ pc' = "poll"
  /\ UNCHANGED <<call, opts, part, link, cache, script, comm, rng, sig, ret, sink,
                 tle>>

\* The stages the scripts of the model are made of.
StageKinds ==
  {[tspan |-> 1, dt |-> 1, mode |-> "CREATE", eta |-> Vec(3, 1000), kcohes |-> 0],
   [tspan |-> 2, dt |-> 1, mode |-> "CREATE", eta |-> Vec(9, 2000), kcohes |-> 0],
   [tspan |-> 3, dt |-> 1, mode |-> "CREATE", eta |-> Vec(3, 1000), kcohes |-> 0],
   [tspan |-> 2, dt |-> 1, mode |-> "SEDIMENT", eta |-> Vec(0, 1), kcohes |-> 16],
   [tspan |-> 4, dt |-> 2, mode |-> "SEDIMENT", eta |-> Vec(0, 1), kcohes |-> 1],
   [tspan |-> 3, dt |-> 3, mode |-> "SEDIMENT", eta |-> Vec(0, 1), kcohes |-> 0],
   [tspan |-> 2, dt |-> 3, mode |-> "SEDIMENT", eta |-> Vec(0, 1), kcohes |-> 0]}

Scripts == UNION {[1 .. n -> StageKinds] : n \in 0 .. NSTAGE}

\* The options of a run that follows the script stages.
opts_run(stages, caching) ==
  [opts_def EXCEPT
     !.caching = caching,
     !.box_x = Vec(100, 100),
     !.istab = 2,
     !.script_n = Len(stages),
     !.script_tspan = [i \in Stages |->
        IF i < Len(stages) THEN stages[i + 1].tspan ELSE 0],
     !.script_dt = [i \in Stages |->
        IF i < Len(stages) THEN stages[i + 1].dt ELSE 0],
     !.script_mode = [i \in Stages |->
        IF i < Len(stages) THEN stages[i + 1].mode ELSE "IDLE"],
     !.create_eta = [i \in Stages |->
        IF i < Len(stages) THEN stages[i + 1].eta ELSE Vec(0, 1)],
     !.sediment_kcohes = [i \in Stages |->
        IF i < Len(stages) THEN stages[i + 1].kcohes ELSE 0]]

\* bmm_dem_run_with: the simulation is constructed and bmm_dem_run_ entered.
InitRun ==
  /\ \E stages \in Scripts : \E caching \in {"NONE", "NEIGH"} :
       dem_def(opts_run(stages, caching))
  /\ rng = 0
  /\ sig = "NONE"
  /\ pc = "register"
  /\ ret = 0
  /\ sink = <<>>
  /\ tle = ""
  /\ call = <<>>

Program ==
  \/ Register
  \/ Poll
  \/ Ongoing
  \/ Comm
  \/ Trans
  \/ StepMode
  \/ StepCache
  \/ StepPredict
  \/ StepForce
  \/ StepCorrect
  \/ StepStab
  \/ StepTick

NextRun ==
  \/ Program
  \/ \E signum \in Sigs : Signal(signum)

SpecRun == InitRun /\ [][NextRun]_vars

\* Where control is once the run is over: bmm_dem_run_ has returned, or the
\* process has gone down in bmm_dem_script_create_hc.
Terminal == Returned \cup {"crashed"}

\* Control moves on while the run is not over.  Program has a step at every
\* such place and each of its steps moves control, so this is a step of
\* Program, told by the place alone.
Advance == pc \notin Terminal /\ pc' \in Terminal \cup InLoop

\* The program keeps running; signals arrive or not.
FairRun == SpecRun /\ WF_pc(Advance)

-----------------------------------------------------------------------------
(***************************************************************************)
(* bmm_dem_step called over and over on particles in motion.               *)
(***************************************************************************)

MaxIstep == 3

\* Places, velocities, angles and angular velocities of particles: next to
\* the edges of the box and inside it, slow and faster than a box per time
\* step, in both directions.
KinStates ==
  {[x |-> Vec(0, 50), v |-> Vec(-1, 2), phi |-> 0, omega |-> -1],
   [x |-> Vec(99, 20), v |-> Vec(70, -130), phi |-> 7, omega |-> 3],
   [x |-> Vec(40, 99), v |-> Vec(-130, 70), phi |-> 3, omega |-> 0],
   [x |-> Vec(60, 0), v |-> Vec(0, 0), phi |-> 5, omega |-> 13]}

\* Particles of radius 4 with the kinematic states ks[k], ..., ks[Len(ks)].
RECURSIVE kin_parts(_, _, _)
kin_parts(p, ks, k) ==
  IF k > Len(ks) THEN p
  ELSE LET ipart == p.n
           q == place_part(p, 4, ks[k].x)
       IN kin_parts([q EXCEPT !.v[ipart] = ks[k].v,
                              !.phi[ipart] = ks[k].phi,
                              !.omega[ipart] = ks[k].omega], ks, k + 1)

\* A simulation in its only stage, which is of the mode SEDIMENT.
opts_step(per, istab, dt) ==
  [run_opts(opts_run(<<[tspan |-> MaxIstep * dt, dt |-> dt,
                        mode |-> "SEDIMENT", eta |-> Vec(0, 1),
                        kcohes |-> 0]>>, "NONE"))
     EXCEPT !.box_per = per, !.istab = istab]

InitStep ==
  /\ \E per \in [Dims -> BOOLEAN], istab \in 1 .. 2, dt \in {1, 3} :
       opts = opts_step(per, istab, dt)
  /\ time = time_zero
  /\ \E n \in 1 .. 2 : \E ks \in [1 .. n -> KinStates] :
       part = kin_parts(part_zero, ks, 1)
  /\ link = link_zero
  /\ cache = [cache_zero EXCEPT !.stale = TRUE]
  /\ script = script_zero
  /\ comm = comm_zero
  /\ rng = 0
  /\ sig = "NONE"
  /\ pc = "poll"
  /\ ret = 0
  /\ sink = <<>>
  /\ tle = ""
  /\ call = <<>>

\* The caller calls bmm_dem_step.
CallStep ==
  /\ pc = "poll"
  /\ time.istep < MaxIstep
  /\ pc' = "step"
  /\ UNCHANGED <<call, opts, time, part, link, cache, script, comm, rng, sig,
                 ret, sink, tle>>

NextStep ==
  \/ CallStep
  \/ StepMode
  \/ StepCache
  \/ StepPredict
  \/ StepForce
  \/ StepCorrect
  \/ StepStab
  \/ StepTick

SpecStep == InitStep /\ [][NextStep]_vars

-----------------------------------------------------------------------------
(***************************************************************************)
(* bmm_dem_step on two particles that touch, overlap, coincide or lie      *)
(* apart, under implemented and unimplemented force laws.                  *)
(***************************************************************************)

\* Places, velocities, angular velocities and radii: the first four lie on
\* a line along dimension 0 with centres zero, one or two apart, the last
\* two lie six apart along dimension 1, below the box and in its second
\* row of cells.
ForceStates ==
  {[x |-> Vec(1, 1), v |-> Vec(0, 0), omega |-> 0, r |-> 1],
   [x |-> Vec(2, 1), v |-> Vec(1, -1), omega |-> 1, r |-> 1],
   [x |-> Vec(3, 1), v |-> Vec(-2, 0), omega |-> 0, r |-> 1],
   [x |-> Vec(3, 1), v |-> Vec(2, 3), omega |-> -1, r |-> 1],
   [x |-> Vec(1, -1), v |-> Vec(0, 1), omega |-> 0, r |-> 3],
   [x |-> Vec(1, 5), v |-> Vec(0, 0), omega |-> 2, r |-> 3]}

\* Values of the selectors fnorm, ftang and famb: the laws that
\* bmm_dem_force_pair and bmm_dem_force_ambient implement, the enumerators
\* they do not, and a value that is no enumerator.
ForceLaws ==
  {[fnorm |-> "DASHPOT", ftang |-> "HW", famb |-> "CREEPING"],
   [fnorm |-> "DASHPOT", ftang |-> "HW", famb |-> "QUAD"],
   [fnorm |-> "DASHPOT", ftang |-> "HW", famb |-> "CORR"],
   [fnorm |-> "VISCOEL", ftang |-> "HW", famb |-> "CREEPING"],
   [fnorm |-> "DASHPOT", ftang |-> "CS", famb |-> "QUAD"],
   [fnorm |-> "NONE", ftang |-> "NONE", famb |-> "CORR"],
   [fnorm |-> "DASHPOT", ftang |-> "HW", famb |-> "UNKNOWN"]}

\* Particles with the states ks[k], ..., ks[Len(ks)].
RECURSIVE force_parts(_, _, _)
force_parts(p, ks, k) ==
  IF k > Len(ks) THEN p
  ELSE LET ipart == p.n
           q == place_part(p, ks[k].r, ks[k].x)
       IN force_parts([q EXCEPT !.v[ipart] = ks[k].v,
                                !.omega[ipart] = ks[k].omega], ks, k + 1)

InitForce ==
  /\ \E law \in ForceLaws, caching \in {"NONE", "NEIGH"}, rc \in {4, 6} :
       opts = [opts_step(Vec(TRUE, FALSE), 2, 1)
                 EXCEPT !.box_x = Vec(12, 8), !.ncell = Vec(5, 4),
                        !.rcutoff = rc, !.caching = caching,
                        !.fnorm = law.fnorm, !.ftang = law.ftang,
                        !.famb = law.famb]
  /\ time = time_zero
  /\ \E ks \in [1 .. 2 -> ForceStates] : part = force_parts(part_zero, ks, 1)
  /\ link = link_zero
  /\ cache = [cache_zero EXCEPT !.stale = TRUE]
  /\ script = script_zero
  /\ comm = comm_zero
  /\ rng = 0
  /\ sig = "NONE"
  /\ pc = "poll"
  /\ ret = 0
  /\ sink = <<>>
  /\ tle = ""
  /\ call = <<>>

SpecForce == InitForce /\ [][NextStep]_vars

-----------------------------------------------------------------------------
(***************************************************************************)
(* The integer operations of common_sint.h and common_uint.h on signed     *)
(* char and unsigned char.  The operands of an arithmetic operator are     *)
(* promoted to int, so only a conversion back to the type can leave its    *)
(* range; the conversion then keeps the low bits, and the value is noted   *)
(* as not representable.                                                   *)
(***************************************************************************)

IntBits == 8

int_min(ty) == IF ty = "sint" THEN -(2 ^ (IntBits - 1)) ELSE 0
int_max(ty) == IF ty = "sint" THEN 2 ^ (IntBits - 1) - 1 ELSE 2 ^ IntBits - 1
Ints(ty) == int_min(ty) .. int_max(ty)

\* The value v converted to the type ty.
int_conv(ty, v) == ((v - int_min(ty)) % (2 ^ IntBits)) + int_min(ty)

\* The operators / and % of C: the quotient is truncated toward zero.
c_div(x, y) ==
  LET q == fp_abs(x) \div fp_abs(y)
  IN IF (x < 0) = (y < 0) THEN q ELSE -q

c_rem(x, y) == x - y * c_div(x, y)

bmm_sgn(x) == IF x > 0 THEN 1 ELSE IF x < 0 THEN -1 ELSE 0

\* bmm_quot of common_uint.h.
bmm_quot_uint(x, y) ==
  [quot |-> int_conv("uint", c_div(x, y)),
   rem |-> int_conv("uint", c_rem(x, y)),
   seen |-> {c_div(x, y), c_rem(x, y)}]

\* bmm_quot of common_sint.h: the quotient, the remainder, and the values
\* that were assigned to variables of the type on the way.
bmm_quot_sint(x, y) ==
  LET q == int_conv("sint", c_div(x, y))
      r == int_conv("sint", c_rem(x, y))
      s == IF r >= 0 THEN 0 ELSE IF y < 0 THEN -1 ELSE 1
  IN [quot |-> int_conv("sint", q - s),
      rem |-> int_conv("sint", r + s * y),
      seen |-> {c_div(x, y), c_rem(x, y), q - s, r + s * y}]

bmm_quot(ty, x, y) ==
  IF ty = "sint" THEN bmm_quot_sint(x, y) ELSE bmm_quot_uint(x, y)

\* The loops of bmm_wrap of common_sint.h on long long int: c is added
\* (or subtracted) once and then for as long as the value is below a (or
\* not below b); the loop body runs the least number of times that ends
\* the loop.
wrap_up(x, a, c) ==
  LET n == CHOOSE k \in 1 .. 2 ^ IntBits :
             x + k * c >= a /\ \A j \in 1 .. k - 1 : x + j * c < a
  IN x + n * c

wrap_down(x, b, c) ==
  LET n == CHOOSE k \in 1 .. 2 ^ IntBits :
             x - k * c < b /\ \A j \in 1 .. k - 1 : x - j * c >= b
  IN x - n * c

\* wrap_ref of tests.c, on int.
wrap_ref(x, a, b) ==
  IF x < a THEN wrap_up(x, a, b - a)
  ELSE IF x >= b THEN wrap_down(x, b, b - a) ELSE x

\* bmm_wrap of common_sint.h: the result and the values that were assigned
\* to variables of the type on the way.
bmm_wrap_sint(x, a, b) ==
  IF bmm_sgn(a) = bmm_sgn(b)
  THEN LET c == int_conv("sint", b - a)
           xq == bmm_quot_sint(x, c)
           aq == bmm_quot_sint(a, c)
           xmc == xq.rem
           amc == aq.rem
           y == (IF xmc >= amc THEN xmc - amc ELSE c - (amc - xmc)) + a
       IN [res |-> int_conv("sint", y),
           seen |-> {b - a, xmc, amc, y} \cup xq.seen \cup aq.seen]
  ELSE LET c == b - a
           y == IF x < a THEN wrap_up(x, a, c)
                ELSE IF x >= b THEN wrap_down(x, b, c) ELSE x
       IN [res |-> int_conv("sint", y), seen |-> {y}]

\* bmm_wrap of common_uint.h the way its comment calls easier to
\* understand: (x - a) % c + a.
bmm_wrap_uint_easy(x, a, b) ==
  LET c == int_conv("uint", b - a)
      y == c_rem(x - a, c) + a
  IN [res |-> int_conv("uint", y), seen |-> {b - a, y}]

\* bmm_wrap of common_uint.h.
bmm_wrap_uint(x, a, b) ==
  LET c == int_conv("uint", b - a)
      r == int_conv("uint", c_rem(x, c))
      s == int_conv("uint", c_rem(a, c))
      y == (IF r >= s THEN r - s ELSE c - (s - r)) + a
  IN [res |-> int_conv("uint", y),
      seen |-> {b - a, c_rem(x, c), c_rem(a, c), y}]

bmm_wrap(ty, x, a, b) ==
  IF ty = "sint" THEN bmm_wrap_sint(x, a, b) ELSE bmm_wrap_uint(x, a, b)

\* The simulation at rest while a library function is called.
dem_idle ==
  /\ dem_def(opts_def)
  /\ rng = 0
  /\ sig = "NONE"
  /\ pc = "lib"
  /\ ret = 0
  /\ sink = <<>>
  /\ tle = ""

\* The ends of the ranges to wrap into: the limits of the type, zero and
\* its neighbors, and values in between.
WrapEnds(ty) ==
  {int_min(ty), int_min(ty) + 1, int_max(ty) - 1, int_max(ty),
   int_min(ty) \div 2, int_max(ty) \div 2, int_max(ty) \div 2 + 1,
   -2, -1, 0, 1, 2, 3, 10} \cap Ints(ty)

InitWrap ==
  /\ dem_idle
  /\ \E ty \in {"sint", "uint"} :
     \E x \in Ints(ty), a \in WrapEnds(ty), b \in WrapEnds(ty) :
       /\ a < b
       /\ call = [fn |-> "wrap", ty |-> ty, x |-> x, a |-> a, b |-> b,
                  done |-> FALSE, res |-> 0, seen |-> {}]

\* y = bmm_wrap(x, a, b)
CallWrap ==
  /\ pc = "lib"
  /\ call.fn = "wrap"
  /\ ~call.done
  /\ LET r == bmm_wrap(call.ty, call.x, call.a, call.b)
     IN call' = [call EXCEPT !.done = TRUE, !.res = r.res, !.seen = r.seen]
  /\ UNCHANGED <<opts, time, part, link, cache, script, comm, rng, sig, pc,
                 ret, sink, tle>>

NextWrap == CallWrap

SpecWrap == InitWrap /\ [][NextWrap]_vars

InitQuot ==
  /\ dem_idle
  /\ \E ty \in {"sint", "uint"} :
     \E x \in Ints(ty), y \in Ints(ty) \ {0} :
       call = [fn |-> "quot", ty |-> ty, x |-> x, y |-> y,
               done |-> FALSE, quot |-> 0, rem |-> 0, seen |-> {}]

\* qr = bmm_quot(x, y)
CallQuot ==
  /\ pc = "lib"
  /\ call.fn = "quot"
  /\ ~call.done
  /\ LET qr == bmm_quot(call.ty, call.x, call.y)
     IN call' = [call EXCEPT !.done = TRUE, !.quot = qr.quot,
                             !.rem = qr.rem, !.seen = qr.seen]
  /\ UNCHANGED <<opts, time, part, link, cache, script, comm, rng, sig, pc,
                 ret, sink, tle>>

NextQuot == CallQuot

SpecQuot == InitQuot /\ [][NextQuot]_vars

-----------------------------------------------------------------------------
(***************************************************************************)
(* The overflow predicates of scalar_sint.h on signed char.  Each gives    *)
(* what it returns and the values of the arithmetic subexpressions that it *)
(* evaluates, in the order of evaluation of && and || and ?:.              *)
(***************************************************************************)

\* add_ovf(x, y)
add_ovf(x, y) ==
  IF y > 0
  THEN [ret |-> int_max("sint") - y < x, seen |-> {int_max("sint") - y}]
  ELSE IF y < 0
  THEN [ret |-> int_min("sint") - y > x, seen |-> {int_min("sint") - y}]
  ELSE [ret |-> FALSE, seen |-> {}]

\* neg_ovf(x)
neg_ovf(x) ==
  IF x > 0
  THEN [ret |-> int_min("sint") + x > 0, seen |-> {int_min("sint") + x}]
  ELSE IF x < 0
  THEN [ret |-> int_max("sint") + x < 0, seen |-> {int_max("sint") + x}]
  ELSE [ret |-> FALSE, seen |-> {}]

\* sub_ovf(x, y)
sub_ovf(x, y) ==
  IF y > 0
  THEN [ret |-> int_min("sint") + y > x, seen |-> {int_min("sint") + y}]
  ELSE IF y < 0
  THEN [ret |-> int_max("sint") + y < x, seen |-> {int_max("sint") + y}]
  ELSE [ret |-> FALSE, seen |-> {}]

\* A product test that negates both factors whenever both are negative.
mul_ovf_negated(x, y) ==
  IF x = 0 THEN [ret |-> FALSE, seen |-> {}]
  ELSE IF x > 0
  THEN IF y > 0
       THEN [ret |-> c_div(int_max("sint"), x) < y,
             seen |-> {c_div(int_max("sint"), x)}]
       ELSE [ret |-> c_div(int_min("sint"), x) > y,
             seen |-> {c_div(int_min("sint"), x)}]
  ELSE IF y > 0
  THEN [ret |-> c_div(int_min("sint"), y) > x,
        seen |-> {c_div(int_min("sint"), y)}]
  ELSE [ret |-> c_div(int_max("sint"), -x) < -y,
        seen |-> {-x, c_div(int_max("sint"), -x), -y}]

\* mul_ovf(x, y)
mul_ovf(x, y) ==
  IF x = 0 THEN [ret |-> FALSE, seen |-> {}]
  ELSE IF x > 0
  THEN IF y > 0
       THEN [ret |-> c_div(int_max("sint"), x) < y,
             seen |-> {c_div(int_max("sint"), x)}]
       ELSE [ret |-> c_div(int_min("sint"), x) > y,
             seen |-> {c_div(int_min("sint"), x)}]
  ELSE IF y > 0
  THEN [ret |-> c_div(int_min("sint"), y) > x,
        seen |-> {c_div(int_min("sint"), y)}]
  ELSE IF int_min("sint") + int_max("sint") <= 0
  THEN [ret |-> c_div(int_max("sint"), x) > y,
        seen |-> {int_min("sint") + int_max("sint"),
                  c_div(int_max("sint"), x)}]
  ELSE [ret |-> c_div(int_max("sint"), -x) < -y,
        seen |-> {int_min("sint") + int_max("sint"), -x,
                  c_div(int_max("sint"), -x), -y}]

InitOvf ==
  /\ dem_idle
  /\ \E x \in Ints("sint"), y \in Ints("sint") :
       call = [fn |-> "ovf", x |-> x, y |-> y, done |-> FALSE,
               add |-> FALSE, neg |-> FALSE, sub |-> FALSE, mul |-> FALSE,
               seen |-> {}]

\* The four predicates are called as add, neg, sub and mul call them, on
\* x and y and on x alone.
CallOvf ==
  /\ pc = "lib"
  /\ call.fn = "ovf"
  /\ ~call.done
  /\ call' = [call EXCEPT
                !.done = TRUE,
                !.add = add_ovf(call.x, call.y).ret,
                !.neg = neg_ovf(call.x).ret,
                !.sub = sub_ovf(call.x, call.y).ret,
                !.mul = mul_ovf(call.x, call.y).ret,
                !.seen = add_ovf(call.x, call.y).seen
                           \cup neg_ovf(call.x).seen
                           \cup sub_ovf(call.x, call.y).seen
                           \cup mul_ovf(call.x, call.y).seen]
  /\ UNCHANGED <<opts, time, part, link, cache, script, comm, rng, sig, pc,
                 ret, sink, tle>>

NextOvf == CallOvf

SpecOvf == InitOvf /\ [][NextOvf]_vars

-----------------------------------------------------------------------------
(***************************************************************************)
(* The indices of the cells of a hypercube and of a hypercuboid, for the   *)
(* index type unsigned char.  Index vectors and side lengths are functions *)
(* on 0 .. ndim - 1.                                                       *)
(***************************************************************************)

MaxNdim == 2

\* The loop of bmm_hc from idim on, with dm.quot = q.
RECURSIVE hc_loop(_, _, _, _, _)
hc_loop(pij, q, idim, ndim, nper) ==
  IF idim >= ndim THEN pij
  ELSE LET dm == bmm_quot_uint(q, nper)
       IN hc_loop([pij EXCEPT ![ndim - 1 - idim] = dm.rem], dm.quot,
                  idim + 1, ndim, nper)

\* bmm_hc(pij, i, ndim, nper): the index vector that pij is set to.
bmm_hc(i, ndim, nper) == hc_loop([d \in 0 .. ndim - 1 |-> 0], i, 0, ndim, nper)

\* The loop of bmm_unhc from idim on.
RECURSIVE unhc_loop(_, _, _, _, _)
unhc_loop(i, idim, ndim, ij, nper) ==
  IF idim >= ndim THEN i
  ELSE unhc_loop(int_conv("uint", int_conv("uint", i * nper) + ij[idim]),
                 idim + 1, ndim, ij, nper)

\* bmm_unhc(ij, ndim, nper)
bmm_unhc(ij, ndim, nper) == unhc_loop(0, 0, ndim, ij, nper)

\* The loop of bmm_hcd from idim on, with dm.quot = q.
RECURSIVE hcd_loop(_, _, _, _, _)
hcd_loop(pij, q, idim, ndim, nper) ==
  IF idim >= ndim THEN pij
  ELSE LET dm == bmm_quot_uint(q, nper[ndim - 1 - idim])
       IN hcd_loop([pij EXCEPT ![ndim - 1 - idim] = dm.rem], dm.quot,
                   idim + 1, ndim, nper)

\* bmm_hcd(pij, i, ndim, nper): the index vector that pij is set to.
bmm_hcd(i, ndim, nper) ==
  hcd_loop([d \in 0 .. ndim - 1 |-> 0], i, 0, ndim, nper)

\* The loop of bmm_unhcd with the side lengths taken in the order of
\* bmm_hcd, last dimension first.
RECURSIVE unhcd_loop_last(_, _, _, _, _)
unhcd_loop_last(i, idim, ndim, ij, nper) ==
  IF idim >= ndim THEN i
  ELSE unhcd_loop_last(
         int_conv("uint", int_conv("uint", i * nper[ndim - 1 - idim])
                            + ij[idim]),
         idim + 1, ndim, ij, nper)

\* The loop of bmm_unhcd from idim on.
RECURSIVE unhcd_loop(_, _, _, _, _)
unhcd_loop(i, idim, ndim, ij, nper) ==
  IF idim >= ndim THEN i
  ELSE unhcd_loop(int_conv("uint", int_conv("uint", i * nper[idim]) + ij[idim]),
                  idim + 1, ndim, ij, nper)

\* bmm_unhcd(ij, ndim, nper)
bmm_unhcd(ij, ndim, nper) == unhcd_loop(0, 0, ndim, ij, nper)

\* The number of cells, as a number and not as a value of the type.
RECURSIVE hc_prod(_, _)
hc_prod(ndim, nper) ==
  IF ndim = 0 THEN 1 ELSE nper[ndim - 1] * hc_prod(ndim - 1, nper)

\* Side lengths: small ones, and ones whose products are next to the
\* greatest value of the type.
HcSides == {1, 2, 3, 15, 16, 17}

\* An index below the number of cells, or an index vector below the side
\* lengths, of a hypercube (fn = "hc") or a hypercuboid (fn = "hcd").
InitHc ==
  /\ dem_idle
  /\ \E fn \in {"hc", "hcd"}, ndim \in 1 .. MaxNdim :
     \E nper \in [0 .. ndim - 1 -> HcSides] :
       /\ fn = "hc" => \A d \in 0 .. ndim - 1 : nper[d] = nper[0]
       /\ \/ \E i \in Ints("uint") :
               /\ i < hc_prod(ndim, nper)
               /\ call = [fn |-> fn, ndim |-> ndim, nper |-> nper,
                          from |-> "i", arg |-> i, i |-> i, ij |-> <<>>,
                          n |-> 0]
          \/ \E ij \in [0 .. ndim - 1 -> 0 .. 16] :
               /\ \A d \in 0 .. ndim - 1 : ij[d] < nper[d]
               /\ call = [fn |-> fn, ndim |-> ndim, nper |-> nper,
                          from |-> "ij", arg |-> ij, i |-> 0, ij |-> ij,
                          n |-> 0]

\* bmm_hc or bmm_hcd
CallHc ==
  /\ pc = "lib"
  /\ call.fn \in {"hc", "hcd"}
  /\ \/ call.from = "i" /\ call.n = 0
     \/ call.from = "ij" /\ call.n = 1
  /\ call' = [call EXCEPT
       !.ij = IF call.fn = "hc" THEN bmm_hc(call.i, call.ndim, call.nper[0])
              ELSE bmm_hcd(call.i, call.ndim, call.nper),
       !.n = call.n + 1]
  /\ UNCHANGED <<opts, time, part, link, cache, script, comm, rng, sig, pc,
                 ret, sink, tle>>

\* bmm_unhc or bmm_unhcd
CallUnhc ==
  /\ pc = "lib"
  /\ call.fn \in {"hc", "hcd"}
  /\ \/ call.from = "ij" /\ call.n = 0
     \/ call.from = "i" /\ call.n = 1
  /\ call' = [call EXCEPT
       !.i = IF call.fn = "hc" THEN bmm_unhc(call.ij, call.ndim, call.nper[0])
             ELSE bmm_unhcd(call.ij, call.ndim, call.nper),
       !.n = call.n + 1]
  /\ UNCHANGED <<opts, time, part, link, cache, script, comm, rng, sig, pc,
                 ret, sink, tle>>

NextHc == CallHc \/ CallUnhc

SpecHc == InitHc /\ [][NextHc]_vars

-----------------------------------------------------------------------------
(***************************************************************************)
(* A message specification written as a header and read back, as in the    *)
(* tests msg_spec_sp_iso and msg_spec_lt_iso.                              *)
(***************************************************************************)

\* Sizes: the ones around the limits of the flag octet and of the prefixes
\* of 1, 2 and 4 octets, and ones with every octet as the most significant.
MsgSizes ==
  {size_of(n) : n \in {0, 1, 7, 8, 255, 256, 65535, 65536, 16777216}}
    \cup {[k \in PreIdx |-> IF k < j THEN w ELSE IF k = j THEN v ELSE 0] :
            j \in PreIdx, v \in {1, 128, 255}, w \in {0, 254}}

\* Terminators of 2^e octets.
MsgTerms(e) ==
  {[k \in PreIdx |-> IF k < 2 ^ e THEN (a + b * k) % 256 ELSE 0] :
     a \in {0, 1, 255}, b \in {0, 1, 16}}

InitMsg ==
  /\ dem_idle
  /\ \E prio \in {"LOW", "HIGH"}, endian \in {"LITTLE", "BIG"} :
       \/ \E size \in MsgSizes :
            call = [fn |-> "msg", n |-> 0, head |-> <<>>,
                    got |-> [ok |-> FALSE, spec |-> bmm_msg_spec_def, n |-> 0],
                    spec |-> [prio |-> prio, endian |-> endian, tag |-> "SP",
                              size |-> size, e |-> 0, buf |-> size_zero]]
       \/ \E e \in 0 .. 3 : \E buf \in MsgTerms(e) :
            call = [fn |-> "msg", n |-> 0, head |-> <<>>,
                    got |-> [ok |-> FALSE, spec |-> bmm_msg_spec_def, n |-> 0],
                    spec |-> [prio |-> prio, endian |-> endian, tag |-> "LT",
                              size |-> size_zero, e |-> e, buf |-> buf]]

\* bmm_msg_spec_write(&out, msg_write, &msg)
MsgWrite ==
  /\ pc = "lib"
  /\ call.fn = "msg"
  /\ call.n = 0
  /\ call' = [call EXCEPT !.n = 1, !.head = bmm_msg_spec_write(call.spec)]
  /\ UNCHANGED <<opts, time, part, link, cache, script, comm, rng, sig, pc,
                 ret, sink, tle>>

\* bmm_msg_spec_read(&in, msg_read, &msg)
MsgRead ==
  /\ pc = "lib"
  /\ call.fn = "msg"
  /\ call.n = 1
  /\ call' = [call EXCEPT !.n = 2, !.got = bmm_msg_spec_read(call.head)]
  /\ UNCHANGED <<opts, time, part, link, cache, script, comm, rng, sig, pc,
                 ret, sink, tle>>

NextMsg == MsgWrite \/ MsgRead

SpecMsg == InitMsg /\ [][NextMsg]_vars

-----------------------------------------------------------------------------
(***************************************************************************)
(* Claims about the particle and link stores.                              *)
(***************************************************************************)

Active == 0 .. part.n - 1

\* C1: after any sequence of add and remove operations on a store made by
\* bmm_dem_def, 0 <= part.n <= MPART and the labels of the active slots are
\* pairwise distinct, all of them below the counter lnew.
C1_CountAndLabels ==
  /\ part.n \in 0 .. MPART
  /\ \A i \in Active : part.l[i] < part.lnew
  /\ \A i \in Active : \A j \in Active : i # j => part.l[i] # part.l[j]

\* A full store whose counter has passed MPART: particles were removed and
\* others added in their place.
C1_Witness == part.n = MPART /\ part.lnew > MPART

\* Everything the stores hold about the particle in the slot k.
SlotOf(p, lk, k) ==
  [role |-> p.role[k], l |-> p.l[k], r |-> p.r[k], m |-> p.m[k],
   jred |-> p.jred[k], x |-> p.x[k], v |-> p.v[k], a |-> p.a[k],
   phi |-> p.phi[k], omega |-> p.omega[k], alpha |-> p.alpha[k],
   f |-> p.f[k], tau |-> p.tau[k],
   links |-> [q \in 1 .. lk.part[k].n |->
               [i |-> lk.part[k].i[q - 1],
                rrest |-> lk.part[k].rrest[q - 1],
                phirest |-> lk.part[k].phirest[q - 1],
                rlim |-> lk.part[k].rlim[q - 1],
                philim |-> lk.part[k].philim[q - 1]]]]

\* C2: remove(i) of an active i is swap-with-last.  The count drops by one
\* and the cache becomes stale; if i is not the last slot it receives every
\* field and the whole link list of the last particle; every other active
\* slot keeps what it held; removing the last slot changes no array.
C2_RemoveSwapsLast ==
  [][\A ipart \in Parts : RemPart(ipart) =>
       LET last == part.n - 1 IN
       /\ part'.n = last
       /\ part'.lnew = part.lnew
       /\ cache'.stale
       /\ \A k \in 0 .. last - 1 :
            k # ipart => SlotOf(part', link', k) = SlotOf(part, link, k)
       /\ ipart # last => SlotOf(part', link', ipart) = SlotOf(part, link, last)
       /\ ipart = last => /\ part' = [part EXCEPT !.n = last]
                          /\ link' = link]_vars

\* Slot 0 of a full store was removed: it now holds the particle of the
\* last slot, bonds included, next to an untouched slot 1.
C2_Witness ==
  /\ cache.stale
  /\ part.n = MPART - 1
  /\ part.l[0] = part.l[MPART - 1]
  /\ part.l[0] # part.l[1]
  /\ link.part[0].n = NLINK
  /\ part.tau[0] # part.tau[1]

\* C3: every stored bond (i, k) of an active particle points at an active
\* particle other than i.
C3_LinkTargets ==
  \A i \in Active : \A k \in Links :
    k < link.part[i].n =>
      /\ link.part[i].i[k] # i
      /\ link.part[i].i[k] < part.n

-----------------------------------------------------------------------------
(***************************************************************************)
(* The neighbor cache built over particles at rest in chosen places.       *)
(***************************************************************************)

\* Places in the box of opts_store: its cells are four wide, dimension 0 is
\* periodic, and dimension 1 has the unbounded cells 0 and 3 outside the box.
CacheX ==
  {Vec(1, 1), Vec(3, 3), Vec(5, 1), Vec(11, 1),
   Vec(1, 5), Vec(1, -1), Vec(9, -1), Vec(5, 9)}

\* Cutoffs as wide as a cell and wider than one.
CacheCutoff == {4, 6}

\* Particles of radius 1 added at the places xs[k], ..., xs[Len(xs)].
RECURSIVE place_parts(_, _, _)
place_parts(p, xs, k) ==
  IF k > Len(xs) THEN p
  ELSE place_parts(place_part(p, 1, xs[k]), xs, k + 1)

InitCache ==
  /\ \E rc \in CacheCutoff : opts = [opts_store EXCEPT !.rcutoff = rc]
  /\ time = time_zero
  /\ \E n \in 1 .. MPART : \E xs \in [1 .. n -> CacheX] :
       part = place_parts(part_zero, xs, 1)
  /\ link = link_zero
  /\ cache = [cache_zero EXCEPT !.stale = TRUE]
  /\ script = script_zero
  /\ comm = comm_zero
  /\ rng = 0
  /\ sig = "NONE"
  /\ pc = "api"
  /\ ret = 0
  /\ sink = <<>>
  /\ tle = ""
  /\ call = <<>>

NextCache == CacheBuild

SpecCache == InitCache /\ [][NextCache]_vars

-----------------------------------------------------------------------------
(***************************************************************************)
(* Bonds made between particles at rest, with and without the neighbor     *)
(* cache.                                                                  *)
(***************************************************************************)

\* Places in the box of opts_store: two in one cell and within reach of
\* each other, and one beyond the periodic edge (x = 0 and x = 12), within
\* reach of the nearer of the two.
LinkX == {Vec(1, 1), Vec(3, 1), Vec(11, 1)}

InitLink ==
  /\ \E c \in {"NONE", "NEIGH"} : opts = [opts_store EXCEPT !.caching = c]
  /\ time = time_zero
  /\ \E xs \in [1 .. MPART -> LinkX] : part = place_parts(part_zero, xs, 1)
  /\ link = link_zero
  /\ cache = [cache_zero EXCEPT !.stale = TRUE]
  /\ script = script_zero
  /\ comm = comm_zero
  /\ rng = 0
  /\ sig = "NONE"
  /\ pc = "api"
  /\ ret = 0
  /\ sink = <<>>
  /\ tle = ""
  /\ call = <<>>

\* bmm_dem_link_pair(dem, ipart, jpart)
LinkPair(ipart, jpart) ==
  /\ pc = "api"
  /\ ipart < part.n /\ jpart < part.n /\ ipart # jpart
  /\ LET st == link_pair(opts, part, [link |-> link, rng |-> rng],
                         ipart, jpart)
     IN /\ link' = st.link
        /\ rng' = st.rng
  /\ ret' = IF link_pair_ret(opts, part, link, ipart, jpart) THEN 1 ELSE 0
  /\ UNCHANGED <<call, opts, time, part, cache, script, comm, sig, pc, sink,
                 tle>>

NextLink ==
  \/ CacheBuild
  \/ Link
  \/ Unlink
  \/ LinkPair(0, 1)

SpecLink == InitLink /\ [][NextLink]_vars

\* How often j stands in the neighbor list of i.
NeighCount(i, j) ==
  Cardinality({k \in Neighs : k < cache.neigh[i].n /\ cache.neigh[i].i[k] = j})

\* The particles i and j are within the cutoff of each other.
Near(i, j) ==
  bmm_geom2d_cpdist2(part.x[i], part.x[j], opts.box_x, opts.box_per)
    <= opts.rcutoff * opts.rcutoff

\* The cell of a position along one dimension, as section 4.4 of the
\* specification and bmm_dem_cache_ijcell define it.
CellOf(x, d) ==
  LET t == 1 + (x * (opts.ncell[d] - 2)) \div opts.box_x[d]
  IN IF x < 0 THEN 0
     ELSE IF t >= opts.ncell[d] - 1 THEN opts.ncell[d] - 1
     ELSE t

\* The step from the cell of x to the cell of y along d: -1, 0, 1, or 2
\* when the cells are not adjacent.  A periodic dimension wraps over its
\* cells inside the box.
CellStep(x, y, d) ==
  LET n == opts.ncell[d] - 2
      s == CellOf(y, d) - CellOf(x, d)
      w == IF opts.box_per[d] THEN s % n ELSE s
  IN IF w = 0 THEN 0
     ELSE IF w = 1 THEN 1
     ELSE IF (opts.box_per[d] /\ w = n - 1) \/ w = -1 THEN -1
     ELSE 2

\* The cell of j lies in the upper half of the neighborhood of the cell of
\* i: its offset is lexicographically greater than zero.
UpperOf(i, j) ==
  LET s0 == CellStep(part.x[i][0], part.x[j][0], 0)
      s1 == CellStep(part.x[i][1], part.x[j][1], 1)
  IN (s0 = 1 /\ s1 \in {-1, 0, 1}) \/ (s0 = 0 /\ s1 = 1)

SameCell(i, j) ==
  CellStep(part.x[i][0], part.x[j][0], 0) = 0 /\ CellStep(part.x[i][1], part.x[j][1], 1) = 0

-----------------------------------------------------------------------------
(***************************************************************************)
(* Claims about the step and the main loop.                                *)
(***************************************************************************)

\* C5: inside a step the forces never see a stale cache.  When the step
\* reaches the forces after the cache was stale or had expired, as judged
\* after the insertions of a CREATE stage, the cache has been built anew:
\* it is fresh, holds the present positions and the present time, and has
\* not expired.  Otherwise the step leaves the cache as it was.  Nothing
\* else in the step writes the cache, except that CREATE marks it stale.
C5_BuildBeforeForces ==
  /\ [](pc \in {"predict", "force", "correct"} => ~cache.stale)
  /\ [][(pc = "cache" /\ pc' = "predict") =>
          IF cache.stale \/ cache_expired(opts, part, cache)
          THEN /\ ~cache'.stale
               /\ cache'.tprev = time.t
               /\ \A i \in Active : cache'.x[i] = part.x[i]
               /\ ~cache_expired(opts, part, cache')
               /\ cache'.neigh = cache_build(opts, part, cache).cache.neigh
          ELSE cache' = cache]_vars
  /\ [][(pc \in {"predict", "force", "correct", "stab", "tick"}) =>
          (cache' = cache)]_vars
  /\ [][(pc = "step") =>
          (cache' = cache \/ cache' = [cache EXCEPT !.stale = TRUE])]_vars

\* The forces are about to be computed in a step that kept the cache of an
\* earlier step: a particle has moved since, but not far enough for the
\* cache to expire.
C5_Witness ==
  /\ pc = "force"
  /\ part.n > 0
  /\ cache.tprev < time.t
  /\ ~cache.stale
  /\ \E i \in Active : cache.x[i] # part.x[i]

\* Some cell holds more than NGROUP active particles.
Crowded ==
  \E i \in Active : Cardinality({j \in Active : SameCell(i, j)}) > NGROUP

\* C6: with more than NGROUP active particles in one cell the build fails;
\* a step that has to build then fails and ends the run with failure,
\* leaving the particles, the time and the step counter as they were.
C6_CellOverflowFails ==
  /\ [](Crowded => ~cache_build(opts, part, cache).ok)
  /\ [][(pc = "cache" /\ pc' # pc /\ Crowded
           /\ step_build_due(opts, part, cache)) =>
          /\ pc' = "ret_step"
          /\ ret' = 0
          /\ part' = part
          /\ time' = time]_vars
  /\ [][(pc = "ret_step") => (UNCHANGED vars)]_vars

\* The run has returned from a failed step with a crowded cell, after
\* earlier steps went through.
C6_Witness ==
  /\ pc = "ret_step"
  /\ ret = 0
  /\ Crowded
  /\ time.t > 0

\* C8 as stated: a signal latched at any point is acted on, so the run
\* never returns while a signal is still latched.
C8_NoLatchLeft == pc \in Returned => sig = "NONE"

\* C8, amended: the latch is read only at the top of the loop.  A signal
\* latched when the loop gets there ends the run with failure and the
\* error Interrupted, with no further snapshot, transition or step; the run
\* is interrupted nowhere else, so a signal that arrives later in the
\* iteration lets the snapshot, the transition and the whole step go on and
\* is lost if the run returns first.  A step past its cache build always
\* runs through its forces, its integration and its time increment.
C8_InterruptedAtPoll ==
  /\ [][(pc = "poll" /\ pc' # pc /\ sig \in Sigs) =>
          /\ pc' = "ret_sig"
          /\ ret' = 0
          /\ tle' = "Interrupted"
          /\ UNCHANGED <<time, part, link, cache, script, comm, sink>>]_vars
  /\ [][(pc' = "ret_sig") => (pc \in {"poll", "ret_sig"})]_vars
  /\ [](tle = "Interrupted" => pc = "ret_sig" /\ ret = 0)
  /\ [][(pc = "predict") => (pc' \in {"predict", "force"})]_vars
  /\ [][(pc = "force") => (pc' \in {"force", "correct"})]_vars
  /\ [][(pc = "correct") => (pc' \in {"correct", "stab"})]_vars
  /\ [][(pc = "stab") => (pc' \in {"stab", "tick"})]_vars
  /\ [][(pc = "tick") =>
          \/ pc' = "tick" /\ time' = time
          \/ /\ pc' = "poll"
             /\ time'.istep = time.istep + 1
             /\ time'.t = time.t + opts.script_dt[script.i]]_vars

\* The run was interrupted at the top of a later iteration, after steps
\* and snapshots.
C8_Witness ==
  /\ pc = "ret_sig"
  /\ ret = 0
  /\ tle = "Interrupted"
  /\ time.istep > 0
  /\ sink # <<>>

\* C9: with positive spans and time steps the run comes to an end; unless
\* the registration failed, a signal was latched, or a snapshot or a step
\* failed, it returns success;
\* a run that returns success has no stage left, its stage index being the
\* number of stages; the stage index never decreases.
C9_ScriptCompletes ==
  /\ <>(pc \in Terminal)
  /\ [](pc \in Returned \ {"ret_register", "ret_sig", "ret_comm", "ret_step"}
          => ret = 1)
  /\ [](pc \in Returned /\ ret = 1 =>
          /\ ~script_ongoing(opts, script)
          /\ script.i = opts.script_n)
  /\ [][script'.i >= script.i]_vars

\* A script of NSTAGE stages has run to its end undisturbed.
C9_Witness ==
  /\ pc = "ret_trans"
  /\ ret = 1
  /\ sig = "NONE"
  /\ opts.script_n = NSTAGE
  /\ script.i = NSTAGE
  /\ time.istep >= NSTAGE

\* The number of complete snapshots in the output.
Bundles ==
  Cardinality({k \in 1 .. Len(sink) : sink[k].num = "PARTS" /\ sink[k].last})

\* The duration of the script: the spans of its stages together.
RECURSIVE span_sum(_, _)
span_sum(o, n) == IF n = 0 THEN 0 ELSE o.script_tspan[n - 1] + span_sum(o, n - 1)

TotalSpan == span_sum(opts, opts.script_n)

\* C10 as stated: a completed run has written ceil(T / dt_comm) snapshots.
C10_CeilBundles ==
  (pc \in {"ret_ongoing", "ret_trans"}) =>
    Bundles = (TotalSpan + opts.comm_dt - 1) \div opts.comm_dt

\* C10, amended: a snapshot is written when dt_comm has passed since the
\* last one, counted from the start, and never at the start.  A completed
\* run that ends at the time t has written at most floor(t / dt_comm)
\* snapshots, and exactly that many if all stages have one time step that
\* divides dt_comm.  The end t is the duration T if every stage's time step
\* divides its span, and later otherwise.
C10_FloorBundles ==
  (pc \in {"ret_ongoing", "ret_trans"}) =>
    LET n == opts.script_n
        ran == {i \in Stages : i < n}
    IN /\ Bundles * opts.comm_dt <= time.t
       /\ ((\A i \in ran : opts.script_dt[i] = opts.script_dt[0]
                            /\ opts.comm_dt % opts.script_dt[i] = 0)
            => Bundles = time.t \div opts.comm_dt)
       /\ time.t >= TotalSpan
       /\ ((\A i \in ran : opts.script_tspan[i] % opts.script_dt[i] = 0)
            <=> time.t = TotalSpan)

\* A run has completed with fewer snapshots than the rounded-up quotient:
\* its steps are longer than dt_comm.
C10_Witness ==
  /\ pc = "ret_trans"
  /\ Bundles >= 2
  /\ Bundles < (TotalSpan + opts.comm_dt - 1) \div opts.comm_dt
  /\ Bundles * opts.comm_dt < time.t

-----------------------------------------------------------------------------
(***************************************************************************)
(* Claims about the snapshot stream.                                       *)
(***************************************************************************)

\* The write that completes the message whose header is the write k of the
\* sink, or 0 if the message was left unfinished.
MsgEnd(k) ==
  LET ends == {j \in k .. Len(sink) : sink[j].last}
  IN IF ends = {} THEN 0 ELSE CHOOSE j \in ends : \A q \in ends : j <= q

\* The octets written after the write k up to the write j.
RECURSIVE OctetsAfter(_, _)
OctetsAfter(k, j) == IF j <= k THEN 0 ELSE sink[j].n + OctetsAfter(k, j - 1)

\* The writes of the sink that are headers, in order.
Heads == SelectSeq([k \in 1 .. Len(sink) |-> k], LAMBDA k : sink[k].what = "head")

\* C11: the sink is a sequence of messages ISTEP, NEIGH, PARTS in turns,
\* each a header, a message number of one octet and a body, the size read
\* from the header being the number of octets that follow it; the three
\* messages of a bundle come from one call of bmm_dem_comm; a message is
\* left unfinished only by a failed write, which lets nothing follow it and
\* ends the run with failure.
C11_FramedBundles ==
  /\ [](\A h \in 1 .. Len(Heads) :
         LET k == Heads[h]
             rd == bmm_msg_spec_read(sink[k].octets)
             j == MsgEnd(k)
         IN /\ sink[k].num = <<"ISTEP", "NEIGH", "PARTS">>[((h - 1) % 3) + 1]
            /\ rd.ok /\ rd.spec.tag = "SP" /\ rd.n = sink[k].n
            /\ sink[k].n <= BMM_MSG_HEADSIZE
            /\ k < Len(sink) =>
                  sink[k + 1].what = "num" /\ sink[k + 1].n = 1
            /\ \A q \in k + 2 .. Len(sink) :
                  (j = 0 \/ q <= j) => sink[q].what = "body"
            /\ \A q \in k .. Len(sink) :
                  (j = 0 \/ q <= j) => sink[q].num = sink[k].num
            /\ j # 0 => size_val(rd.spec.size) = OctetsAfter(k, j)
            /\ j = 0 => pc = "ret_comm" /\ h = Len(Heads)
            /\ (h % 3 # 1) =>
                  /\ sink[k].istep = sink[Heads[h - 1]].istep
                  /\ sink[k].t = sink[Heads[h - 1]].t)
  /\ [](sink # <<>> => sink[1].what = "head")
  /\ [](pc # "ret_comm" =>
         /\ Len(Heads) % 3 = 0
         /\ sink # <<>> => sink[Len(sink)].last)
  /\ [](pc = "ret_comm" =>
         /\ ret = 0
         /\ ~(Len(Heads) % 3 = 0 /\ sink # <<>> /\ sink[Len(sink)].last
                /\ sink[Len(sink)].t = time.t))
  /\ [][(pc = "comm" /\ sink' # sink /\ pc' # "ret_comm") =>
          /\ Len(Heads') = Len(Heads) + 3
          /\ sink'[Len(sink')].t = time.t]_vars
  /\ [][(pc = "ret_comm") => UNCHANGED vars]_vars

\* A write failed in the body of the NEIGH message of a later bundle.
C11_Witness ==
  /\ pc = "ret_comm"
  /\ ret = 0
  /\ Len(Heads) = 5
  /\ sink[Len(sink)].num = "NEIGH"
  /\ sink[Len(sink)].what = "body"
  /\ ~sink[Len(sink)].last

-----------------------------------------------------------------------------
(***************************************************************************)
(* Claims about the integration.                                           *)
(***************************************************************************)

\* C12: the Euler step leaves every active particle inside the box along
\* every periodic dimension, at the place it was carried to by its new
\* velocity up to whole box lengths, and the positions stay inside until
\* the next Euler step.
C12_PeriodicInBox ==
  /\ [][(pc = "correct" /\ pc' # pc) =>
          \A i \in Active : \A d \in Dims :
            LET dt == opts.script_dt[script.i]
                y == part.x[i][d] + part'.v[i][d] * dt
            IN IF opts.box_per[d]
               THEN /\ 0 <= part'.x[i][d]
                    /\ part'.x[i][d] < opts.box_x[d]
                    /\ (part'.x[i][d] - y) % opts.box_x[d] = 0
               ELSE part'.x[i][d] = y]_vars
  /\ [](pc \in {"stab", "tick"} \/ (pc = "poll" /\ time.istep > 0) =>
         \A i \in Active : \A d \in Dims :
           opts.box_per[d] =>
             0 <= part.x[i][d] /\ part.x[i][d] < opts.box_x[d])

\* A particle has just been carried over an edge of the box along its
\* second dimension, which is periodic, and wrapped back.
C12_Witness ==
  /\ pc = "stab"
  /\ opts.box_per[1]
  /\ \E i \in Active :
       LET was == part.x[i][1] - part.v[i][1] * opts.script_dt[script.i]
       IN was < 0 \/ was >= opts.box_x[1]

\* C13: in a step whose step counter, before its increment, is a multiple
\* of istab the angles of the active particles are wrapped into [0, 2 pi)
\* and nothing else is changed; in other steps stabilization changes
\* nothing; the counter is incremented after that, so at the end of a step
\* with stabilization all angles are in [0, 2 pi).
C13_StabEveryIstab ==
  /\ [][(pc = "stab" /\ pc' # pc) =>
          IF time.istep % opts.istab = 0
          THEN /\ \A i \in Active :
                    /\ 0 <= part'.phi[i] /\ part'.phi[i] < M_2PI
                    /\ (part'.phi[i] - part.phi[i]) % M_2PI = 0
               /\ part' = [part EXCEPT !.phi = part'.phi]
               /\ time' = time
          ELSE part' = part /\ time' = time]_vars
  /\ [][(pc = "tick" /\ pc' # pc) =>
          part' = part /\ time'.istep = time.istep + 1]_vars
  /\ [](pc = "tick" /\ time.istep % opts.istab = 0 =>
         \A i \in Active : 0 <= part.phi[i] /\ part.phi[i] < M_2PI)
  /\ [](pc = "poll" /\ time.istep > 0 /\ (time.istep - 1) % opts.istab = 0 =>
         \A i \in Active : 0 <= part.phi[i] /\ part.phi[i] < M_2PI)

\* The third step has wrapped an angle that the second step, which is not
\* a multiple of istab, had let grow past a whole turn.
C13_Witness ==
  /\ pc = "tick"
  /\ time.istep = 2
  /\ opts.istab = 2
  /\ \E i \in Active :
       part.omega[i] * opts.script_dt[script.i] >= M_2PI

-----------------------------------------------------------------------------
(***************************************************************************)
(* Claims about the integer operations.                                    *)
(***************************************************************************)

\* C14: bmm_wrap(x, a, b) lies in [a, b), differs from x by a multiple of
\* b - a and is what the loop of wrap_ref finds, and every value assigned to a variable of the type on the way
\* is a value of the type.
C14_WrapInRange ==
  (call # <<>> /\ call.fn = "wrap" /\ call.done) =>
    /\ call.a <= call.res /\ call.res < call.b
    /\ (call.res - call.x) % (call.b - call.a) = 0
    /\ call.res = int_conv(call.ty, wrap_ref(call.x, call.a, call.b))
    /\ call.seen \subseteq Ints(call.ty)

\* A value below the range, of the other sign than its upper end, has been
\* wrapped into a range that spans more than half of the signed type.
C14_Witness ==
  /\ call # <<>> /\ call.fn = "wrap" /\ call.done
  /\ call.ty = "sint"
  /\ call.x < call.a /\ call.a < 0 /\ call.b > 0
  /\ call.b - call.a > int_max("sint")
  /\ call.res # call.x

\* C15: bmm_quot(x, y) with y nonzero returns a quotient and a remainder
\* with quot * y + rem = x and 0 <= rem < |y|, for the signed and the
\* unsigned type.
C15_QuotRem ==
  (call # <<>> /\ call.fn = "quot" /\ call.done) =>
    /\ call.quot * call.y + call.rem = call.x
    /\ 0 <= call.rem /\ call.rem < fp_abs(call.y)

\* C16: in the signed bmm_quot every value assigned on the way (x / y,
\* x % y, q - s, r + s * y) is a value of the type.
C16_QuotNoOverflow ==
  (call # <<>> /\ call.fn = "quot" /\ call.done /\ call.ty = "sint") =>
    call.seen \subseteq Ints("sint")

\* Both calls have been made, and the second has returned what the first
\* was given.
HcBack ==
  (call # <<>> /\ call.fn \in {"hc", "hcd"} /\ call.n = 2) =>
    IF call.from = "i" THEN call.i = call.arg ELSE call.ij = call.arg

-----------------------------------------------------------------------------
(***************************************************************************)
(* Claims about message headers.                                           *)
(***************************************************************************)

\* C18: the header that bmm_msg_spec_write makes of a message specification
\* has at most BMM_MSG_HEADSIZE octets, and bmm_msg_spec_read succeeds on
\* it, takes all of it and yields the priority, the endianness and the tag
\* that were written, with the size of a size-prefixed message or the
\* exponent and the 2^e octets of the terminator of a literal-terminated
\* one.
C18_HeaderRoundTrip ==
  (call # <<>> /\ call.fn = "msg") =>
    /\ call.n >= 1 =>
         Len(call.head) >= BMM_MSG_FLAGSIZE /\ Len(call.head) <= BMM_MSG_HEADSIZE
    /\ call.n = 2 =>
         /\ call.got.ok
         /\ call.got.n = Len(call.head)
         /\ call.got.spec.prio = call.spec.prio
         /\ call.got.spec.endian = call.spec.endian
         /\ call.got.spec.tag = call.spec.tag
         /\ call.spec.tag = "SP" => call.got.spec.size = call.spec.size
         /\ call.spec.tag = "LT" =>
              /\ call.got.spec.e = call.spec.e
              /\ \A k \in 0 .. 2 ^ call.spec.e - 1 :
                   call.got.spec.buf[k] = call.spec.buf[k]

\* A high-priority big-endian header with a size that takes all eight
\* octets of the prefix, none of them equal to its neighbor, has been
\* written and read.
C18_Witness ==
  /\ call # <<>> /\ call.fn = "msg" /\ call.n = 2
  /\ call.spec.prio = "HIGH" /\ call.spec.endian = "BIG"
  /\ call.spec.tag = "SP"
  /\ call.spec.size[7] = 128 /\ call.spec.size[0] = 254
  /\ Len(call.head) = BMM_MSG_HEADSIZE
  /\ call.head[2] = 128 /\ call.head[9] = 254

-----------------------------------------------------------------------------
(***************************************************************************)
(* Claims about bonds.                                                     *)
(***************************************************************************)

\* The number of times the list of ipart in the link store lk names jpart.
BondCount(lk, ipart, jpart) ==
  Cardinality({k \in Links : k < lk.part[ipart].n /\ lk.part[ipart].i[k] = jpart})

\* No active particle has a bond.
Unbonded == \A i \in Active : link.part[i].n = 0

\* Every pair is stored at most once in lk, and not in the list of its
\* higher index.
LowerOwner(lk, n) ==
  \A i \in 0 .. n - 1, j \in 0 .. n - 1 :
    i < j => BondCount(lk, i, j) <= 1 /\ BondCount(lk, j, i) = 0

\* Every pair is stored at most once in lk; without the neighbor cache not
\* in the list of its higher index, and with it only in a list whose
\* particle has the other one as a neighbor.
NeighOwner(lk, n) ==
  \A i \in 0 .. n - 1, j \in 0 .. n - 1 :
    i < j =>
      /\ BondCount(lk, i, j) + BondCount(lk, j, i) <= 1
      /\ opts.caching = "NONE" => BondCount(lk, j, i) = 0
      /\ opts.caching = "NEIGH" =>
           /\ BondCount(lk, i, j) = 1 => NeighCount(i, j) = 1
           /\ BondCount(lk, j, i) = 1 => NeighCount(j, i) = 1
           /\ SameCell(i, j) => BondCount(lk, j, i) = 0

C20_FullListSkips ==
  /\ [](\A i \in Parts : link.part[i].n <= NLINK)
  /\ [][(LinkPair(0, 1) /\ link.part[0].n >= NLINK)
         => (ret' = 0 /\ link' = link)]_vars
  /\ [][Link => ret' = 1]_vars

\* The first of three particles in a row has the second, which is within
\* its reach, twice in its list, which is full; the neighbor cache has not
\* been built, and the last call returned false: it was bmm_dem_link_pair
\* on the full list.
C20_Witness ==
  /\ part.n = MPART /\ part.x[0] = Vec(1, 1) /\ part.x[1] = Vec(3, 1)
  /\ cache = [cache_zero EXCEPT !.stale = TRUE]
  /\ link.part[0].n >= NLINK /\ BondCount(link, 0, 1) >= 2
  /\ ret = 0

\* C21: bmm_dem_unlink leaves every active particle without bonds, and
\* another bmm_dem_unlink right after it changes nothing.
C21_UnlinkIdempotent ==
  [][Unlink =>
       /\ \A i \in Parts : i < part.n => link'.part[i].n = 0
       /\ unlink(link', part'.n) = link']_vars

\* A full store whose first particle had bonds to the second and the third
\* has just been unlinked.
C21_Witness ==
  /\ part.n = MPART /\ ret = 1
  /\ link.part[0].n = 0 /\ link.part[0].i[0] = 1 /\ link.part[0].i[1] = 2

\* C27: the particle that a successful bmm_dem_addpart returns has no
\* bonds right after the call.
C27_AddedUnbonded ==
  [][(AddPart /\ part.n < MPART) => link'.part[part.n].n = 0]_vars

\* The selectors name laws that bmm_dem_force_pair and
\* bmm_dem_force_ambient implement.
LawsImplemented(o) ==
  /\ o.fnorm = "DASHPOT"
  /\ o.ftang = "HW"
  /\ o.famb \in {"CREEPING", "QUAD", "CORR"}

\* C22: a step whose fnorm, ftang or famb selector names no implemented law
\* fails instead of evaluating the forces.
C22_UnsupportedFatal ==
  [][(pc = "force" /\ ~LawsImplemented(opts))
       => (pc' = "ret_step" /\ part' = part)]_vars

\* The displacement of ipart along idim since the cache was built, as
\* bmm_dem_cache_expired measures it: wrapped by the width of the box.
Displacement(ipart, idim) ==
  fp_abs(bmm_fp_swrap(part.x[ipart][idim] - cache.x[ipart][idim],
                      opts.box_x[idim]))

\* Twice the inner cells of idim times the displacement plus the radius,
\* to be compared with the width of the box: the displacement is at the
\* safe radius dx - r[ipart] when the two are equal.
Reach(ipart, idim) ==
  2 * (opts.ncell[idim] - 2) * (Displacement(ipart, idim) + part.r[ipart])

\* The step builds the cache, or fails in doing so.
Rebuilds ==
  \/ pc' = "ret_step"
  \/ /\ cache'.tprev = time.t
     /\ \A ipart \in Parts : ipart < part.n => cache'.x[ipart] = part.x[ipart]

\* C23 as stated: a step that finds a cache that is not stale builds it
\* anew if some displacement exceeds the safe radius, and leaves it alone
\* if no displacement does, one that equals the safe radius included.
C23_StrictExpiry ==
  [][(pc = "cache" /\ ~cache.stale) =>
       IF \E ipart \in Parts, idim \in Dims :
            ipart < part.n /\ Reach(ipart, idim) > opts.box_x[idim]
       THEN Rebuilds
       ELSE cache' = cache]_vars

\* C23, amended: a step that finds a cache that is not stale builds it anew
\* if some displacement equals or exceeds the safe radius, and leaves it
\* alone if every displacement is smaller.
C23_Expiry ==
  [][(pc = "cache" /\ ~cache.stale) =>
       IF \E ipart \in Parts, idim \in Dims :
            ipart < part.n /\ Reach(ipart, idim) >= opts.box_x[idim]
       THEN Rebuilds
       ELSE cache' = cache]_vars

\* Particle 1 of radius 1 has moved by exactly dx - r = 1 along both
\* dimensions while particle 0 stood still, and the cache has been built
\* again in the second step.
C23_Witness ==
  /\ pc = "predict" /\ time.istep = 1 /\ cache.tprev = time.t
  /\ opts.fnorm = "NONE"
  /\ part.r[0] = 1 /\ part.x[0] = Vec(1, 1) /\ part.v[0] = Zero
  /\ part.r[1] = 1 /\ part.x[1] = Vec(3, 0) /\ part.v[1] = Vec(1, -1)
  /\ cache.x[1] = Vec(3, 0)

\* The shortest image of the vector from ipart to jpart.
Apart(ipart, jpart) ==
  bmm_geom2d_cpdiff(part.x[ipart], part.x[jpart], opts.box_x, opts.box_per)

\* The centres of ipart and jpart are exactly the sum of the radii apart.
Touching(ipart, jpart) ==
  bmm_geom2d_norm2(Apart(ipart, jpart))
    = bmm_fp_sq(part.r[ipart] + part.r[jpart])

\* The rate at which ipart and jpart approach along the line of centres,
\* dotxi of bmm_dem_force_pair for a touching pair.
Closing(ipart, jpart) ==
  fp_div(bmm_geom2d_dot(bmm_geom2d_diff(part.v[ipart], part.v[jpart]),
                        Apart(ipart, jpart)),
         part.r[ipart] + part.r[jpart])

\* bmm_dem_force calls bmm_dem_force_pair on ipart and jpart, from
\* either end.
Visited(ipart, jpart) ==
  LET pairs == pairs_of(opts, part, cache)
  IN \E k \in DOMAIN pairs : pairs[k] \in {<<ipart, jpart>>, <<jpart, ipart>>}

\* C24 as stated: the force evaluation of a step that visits one touching
\* pair leaves both particles without a force along the line of centres,
\* whatever the velocities.
C24_TouchingNoNormal ==
  [][(StepForce /\ part.n = 2 /\ Touching(0, 1) /\ Visited(0, 1)) =>
       /\ bmm_geom2d_dot(part'.f[0], Apart(0, 1)) = 0
       /\ bmm_geom2d_dot(part'.f[1], Apart(0, 1)) = 0]_vars

\* C24, amended: the normal force on a touching pair is zero unless the
\* law is DASHPOT and the two approach each other; then it has the
\* magnitude gamma * dotxi and pushes the two apart.
C24_TouchingDashpot ==
  [][(StepForce /\ part.n = 2 /\ Touching(0, 1) /\ Visited(0, 1)) =>
       LET d == part.r[0] + part.r[1]
           fn == IF opts.fnorm = "DASHPOT" /\ Closing(0, 1) > 0
                 THEN opts.norm_gamma * Closing(0, 1)
                 ELSE 0
       IN /\ bmm_geom2d_dot(part'.f[0], Apart(0, 1)) = -fn * d
          /\ bmm_geom2d_dot(part'.f[1], Apart(0, 1)) = fn * d]_vars

\* Particle 1 touches particle 0 and moves towards it at the rate 2; the
\* forces of the first step push the two apart.
C24_Witness ==
  /\ pc = "correct" /\ time.istep = 0 /\ opts.fnorm = "DASHPOT"
  /\ part.r[0] = 1 /\ part.x[0] = Vec(1, 1) /\ part.v[0] = Zero
  /\ part.r[1] = 1 /\ part.x[1] = Vec(3, 1) /\ part.v[1] = Vec(-2, 0)
  /\ part.f[0] = Vec(-2, 0) /\ part.f[1] = Vec(2, 0)

\* x limited to the interval from lo to hi.
Clamp(x, lo, hi) == IF x < lo THEN lo ELSE IF x > hi THEN hi ELSE x

\* C25 as stated: the cell index of every cached position is
\* clamp(floor(x * (ncell - 1) / box), 0, ncell - 1).
C25_CellIndexWhole ==
  ~cache.stale =>
    \A ipart \in Parts, idim \in Dims :
      ipart < part.n =>
        cache.ijcell[ipart][idim]
          = Clamp((cache.x[ipart][idim] * (opts.ncell[idim] - 1))
                     \div opts.box_x[idim],
                  0, opts.ncell[idim] - 1)

\* C25, amended: the cell index of every cached position is
\* clamp(floor(1 + x * (ncell - 2) / box), 0, ncell - 1); it lies in
\* 0 .. ncell - 1, and for a position inside the box, where the code
\* truncates, it is below ncell - 1 as the assertion demands.
C25_CellIndex ==
  ~cache.stale =>
    \A ipart \in Parts, idim \in Dims :
      ipart < part.n =>
        LET x == cache.x[ipart][idim]
            j == cache.ijcell[ipart][idim]
        IN /\ j = Clamp(1 + (x * (opts.ncell[idim] - 2))
                              \div opts.box_x[idim],
                        0, opts.ncell[idim] - 1)
           /\ j \in 0 .. opts.ncell[idim] - 1
           /\ (0 <= x /\ x < opts.box_x[idim]) => j < opts.ncell[idim] - 1

\* The cache has been built with one particle below the box and one in its
\* second row of cells.
C25_Witness ==
  /\ ~cache.stale /\ part.n = 2
  /\ cache.x[0] = Vec(1, -1) /\ cache.ijcell[0] = Vec(1, 0)
  /\ cache.x[1] = Vec(1, 5) /\ cache.ijcell[1] = Vec(1, 2)

\* C26: bmm_dem_script_create_hc of a CREATE stage never writes a radius,
\* mass or position through the SIZE_MAX that bmm_dem_addpart returns when
\* the particle table is full.
C26_CreateInBounds ==
  (pc = "step" /\ opts.script_mode[script.i] = "CREATE") =>
    ~script_create_hc(opts, part, cache.stale, rng, script.i).stray

\* The cache has just been built from the present positions.
JustBuilt ==
  /\ ~cache.stale
  /\ \A ipart \in Parts : ipart < part.n => cache.x[ipart] = part.x[ipart]

\* No two particles can touch beyond the cutoff.
RadiiWithinCutoff ==
  \A ipart \in Parts, jpart \in Parts :
    (ipart < jpart /\ jpart < part.n)
      => part.r[ipart] + part.r[jpart] <= opts.rcutoff

\* ipart and jpart overlap or touch and do not coincide: the pairs for
\* which bmm_dem_force_pair does not return at once.
Overlapping(ipart, jpart) ==
  LET d2 == bmm_geom2d_norm2(Apart(ipart, jpart))
  IN 0 < d2 /\ d2 <= bmm_fp_sq(part.r[ipart] + part.r[jpart])

\* How many times bmm_dem_force with the given caching calls
\* bmm_dem_force_pair on ipart and jpart, from either end.
KernelCalls(caching, ipart, jpart) ==
  LET pairs == pairs_of([opts EXCEPT !.caching = caching], part, cache)
  IN Cardinality({k \in DOMAIN pairs :
                    pairs[k] \in {<<ipart, jpart>>, <<jpart, ipart>>}})

\* The force evaluation of the step visits every overlapping pair once
\* with either caching and leaves the forces and torques that the other
\* caching would have left.
SameContacts ==
  /\ \A ipart \in Parts, jpart \in Parts :
       (ipart < jpart /\ jpart < part.n /\ Overlapping(ipart, jpart)) =>
         /\ KernelCalls("NONE", ipart, jpart) = 1
         /\ KernelCalls("NEIGH", ipart, jpart) = 1
  /\ part' = force([opts EXCEPT !.caching = "NONE"], part, cache, script.i)
  /\ part' = force([opts EXCEPT !.caching = "NEIGH"], part, cache, script.i)

\* The cutoff is no greater than the width of a cell inside the box.
CutoffWithinCell ==
  \A idim \in Dims : opts.rcutoff * (opts.ncell[idim] - 2) <= opts.box_x[idim]

\* Along the periodic dimensions every particle is inside the box, where
\* the integration keeps it.
InsidePeriodic ==
  \A ipart \in Parts, idim \in Dims :
    (ipart < part.n /\ opts.box_per[idim])
      => (0 <= part.x[ipart][idim] /\ part.x[ipart][idim] < opts.box_x[idim])

AmbientLaws == {"CREEPING", "QUAD", "CORR", "UNKNOWN"}

\* C29: in the force evaluation of a step the forces and torques of the
\* active particles are all zero after the ambient pass, whatever the
\* ambient law, and what the evaluation leaves behind is what it would
\* have left with any other ambient law.
C29_AmbientIdle ==
  [][StepForce =>
       \A famb \in AmbientLaws :
         LET o == [opts EXCEPT !.famb = famb]
         IN /\ \A ipart \in Parts :
                 ipart < part.n =>
                   /\ force_ambients(o, part).f[ipart] = Zero
                   /\ force_ambients(o, part).tau[ipart] = 0
            /\ part' = force(o, part, cache, script.i)]_vars

\* The ambient law CREEPING is in force in the second step; the first step
\* has accelerated particle 0 by its contact with particle 1, the two no
\* longer touch, and the second force evaluation has left no force on
\* either.
C29_Witness ==
  /\ pc = "correct" /\ time.istep = 1 /\ opts.famb = "CREEPING"
  /\ part.n = 2 /\ part.a[0] # Zero
  /\ part.f[0] = Zero /\ part.f[1] = Zero

\* C30: on signed char each of add_ovf, neg_ovf, sub_ovf and mul_ovf is
\* true exactly when the sum, the negation, the difference or the product
\* is no value of the type, and every arithmetic subexpression that the
\* four evaluate is a value of the type.
C30_OvfExact ==
  (call # <<>> /\ call.fn = "ovf" /\ call.done) =>
    /\ call.add <=> (call.x + call.y \notin Ints("sint"))
    /\ call.neg <=> (-call.x \notin Ints("sint"))
    /\ call.sub <=> (call.x - call.y \notin Ints("sint"))
    /\ call.mul <=> (call.x * call.y \notin Ints("sint"))
    /\ call.seen \subseteq Ints("sint")

\* The predicates have been called on the least value and -1: the
\* negation and the product overflow, the sum does too, the difference
\* does not.
C30_Witness ==
  /\ call # <<>> /\ call.fn = "ovf" /\ call.done
  /\ call.x = int_min("sint") /\ call.y = -1
  /\ call.neg /\ call.mul /\ call.add /\ ~call.sub

=============================================================================
